---- MODULE Spec2Model ----
(***************************************************************************)
(* A model of the rust-blockchain node core: transactions with ed25519     *)
(* signing and verification, blocks with proof of work, the sled-backed    *)
(* chain store with its LAST tip pointer, and the UTXO index.              *)
(*                                                                         *)
(* A byte string (hash, key, signature, address, serialised value) is a    *)
(* tuple: <<>> is the empty string, any other starts with a tag naming     *)
(* what the bytes are.  SHA-256 and RIPEMD-160 are ideal (injective): a    *)
(* digest is the tag with the hashed bytes.  ed25519 is ideal: a signature *)
(* is the secret key with the message, and verifies for nothing else.      *)
(* bincode::serialize lists the fields in their declared order.            *)
(***************************************************************************)
EXTENDS Integers, Sequences, FiniteSets, TLC

(***************************************************************************)
(* Bounds.                                                                 *)
(***************************************************************************)
\* Clock readings are 1..MaxTime.
MaxTime == 1
\* Blocks in existence, stored or built by other nodes.
MaxBlocks == 3
\* Transactions built by wallets.
MaxTxs == 2
\* Transactions a block holds besides its coinbase.
MaxBlockTxs == 1
\* Inputs of a transaction handed to sign and verify directly.
MaxInputs == 2
\* One header in PowMod meets the proof-of-work target.
PowMod == 2

Keys == {"A", "B"}
Amounts == {30, 100}
Timestamps == 1..MaxTime

(***************************************************************************)
(* Program constants.                                                      *)
(***************************************************************************)
TARGET_HEXT == 4
REWARD == 100
GENESIS_COINBASE_DATA ==
    <<"data", "The Times 03/Jan/2009 Chancellor on brink of second bailout for banks">>

(***************************************************************************)
(* Hashing and signing primitives.                                         *)
(***************************************************************************)
Empty == <<>>

\* The first TARGET_HEXT hex characters of the digest of data: a fixed
\* pseudo-random function of the hashed bytes.  For a serialised block
\* header it varies with the timestamp and the nonce.
digest_prefix(data) ==
    IF data[1] = "blk" /\ (data[4] + data[6]) % PowMod = 0 THEN "0000" ELSE "ffff"

\* Sha256::result_str: the hex digest of data.
sha256_str(data) == <<"sha", data>>

\* Sha256::result: the raw 32 bytes of the digest.
sha256_raw(data) == <<"raw", sha256_str(data)>>

\* hash_pub_key: RIPEMD160(SHA256(pub_key)), written back into the buffer.
hash_pub_key(pub_key) == <<"r160", sha256_raw(pub_key)>>

\* Wallet::new: the ed25519 key pair of wallet k.
secret_key(k) == <<"sk", k>>
public_key(k) == <<"pk", k>>

ed25519_signature(msg, secret) == <<"sig", secret, msg>>

ed25519_verify(msg, pub, sig) ==
    \E k \in Keys : /\ pub = public_key(k)
                    /\ sig = ed25519_signature(msg, secret_key(k))

\* Wallet::get_address: base58 encoding of the hashed public key.
get_address(k) == <<"addr", hash_pub_key(public_key(k))>>

Addresses == {get_address(k) : k \in Keys}

\* Address::decode(address).body, the inverse of the encoding above.
address_decode(address) == address[2]

\* A well-formed address that no wallet of the wallets store has.
Stranger == <<"addr", hash_pub_key(public_key("C"))>>

\* The address of a wallet that only collects mining rewards.
Miner == get_address("M")

\* Wallets::get_wallet(address).is_some()
get_wallet(address) == address \in Addresses \cup {Miner}

(***************************************************************************)
(* Transactions.                                                           *)
(***************************************************************************)
TXInput(txid, vout, signature, pub_key) ==
    [txid |-> txid, vout |-> vout, signature |-> signature, pub_key |-> pub_key]

\* TXOutput::new followed by TXOutput::lock
TXOutput_new(value, address) ==
    [value |-> value, pub_key_hash |-> address_decode(address)]

is_locked_with_key(out, pub_key_hash) == out.pub_key_hash = pub_key_hash

uses_key(in, pub_key_hash) == hash_pub_key(in.pub_key) = pub_key_hash

NoTx == [id |-> Empty, vin |-> <<>>, vout |-> <<>>]

\* bincode::serialize(&Transaction): id, vin, vout in field order.
serialize_tx(tx) == <<"tx", tx.id, tx.vin, tx.vout>>

\* Transaction::hash has two effects: it clears self.id, and it returns the
\* hex digest of the serialised, id-less transaction.
hash_cleared(tx) == [tx EXCEPT !.id = Empty]
hash(tx) == sha256_str(serialize_tx(hash_cleared(tx)))

is_coinbase(tx) ==
    /\ Len(tx.vin) = 1
    /\ tx.vin[1].txid = Empty
    /\ tx.vin[1].vout = -1

trim_copy(tx) ==
    [id   |-> tx.id,
     vin  |-> [i \in 1..Len(tx.vin) |->
                 TXInput(tx.vin[i].txid, tx.vin[i].vout, Empty, Empty)],
     vout |-> tx.vout]

\* The check both sign and verify make first: every input's previous
\* transaction is in prev_txs and has a non-empty id.
prev_txs_correct(tx, prev_txs) ==
    \A i \in 1..Len(tx.vin) :
        /\ tx.vin[i].txid \in DOMAIN prev_txs
        /\ prev_txs[tx.vin[i].txid].id # Empty

\* prev_tx.vout[vout as usize] is in range (anything else panics).
vout_in_range(prev_tx, vout) == vout >= 0 /\ vout < Len(prev_tx.vout)

\* One pass of the loop body shared by sign and verify: the copy with the
\* referenced output's pub_key_hash planted in input idx.
\* The same pass leaving the referenced output out of what is signed.
planted_nothing(tx_copy, prev_tx, idx, vout) ==
    [tx_copy EXCEPT !.vin[idx].signature = Empty]

planted(tx_copy, prev_tx, idx, vout) ==
    [tx_copy EXCEPT !.vin[idx].signature = Empty,
                    !.vin[idx].pub_key = prev_tx.vout[vout + 1].pub_key_hash]

RECURSIVE verify_loop(_, _, _, _)
verify_loop(self, prev_txs, tx_copy, idx) ==
    IF idx > Len(self.vin) THEN "true"
    ELSE LET prev_tx == prev_txs[tx_copy.vin[idx].txid]
             vout    == self.vin[idx].vout
         IN  IF ~vout_in_range(prev_tx, vout) THEN "panic"
             ELSE LET c1     == planted(tx_copy, prev_tx, idx, vout)
                      digest == hash(c1)
                      c2     == [c1 EXCEPT !.id = digest, !.vin[idx].pub_key = Empty]
                  IN  IF ~ed25519_verify(digest, self.vin[idx].pub_key,
                                         self.vin[idx].signature)
                      THEN "false"
                      ELSE verify_loop(self, prev_txs, c2, idx + 1)

\* Transaction::verify: "true", "false", "err" (an Err result) or "panic".
verify(self, prev_txs) ==
    IF is_coinbase(self) THEN "true"
    ELSE IF ~prev_txs_correct(self, prev_txs) THEN "err"
    ELSE verify_loop(self, prev_txs, trim_copy(self), 1)

RECURSIVE sign_loop(_, _, _, _, _)
sign_loop(self, private_key, prev_txs, tx_copy, idx) ==
    IF idx > Len(tx_copy.vin) THEN [res |-> "ok", tx |-> self]
    ELSE LET prev_tx == prev_txs[tx_copy.vin[idx].txid]
             vout    == tx_copy.vin[idx].vout
         IN  IF ~vout_in_range(prev_tx, vout) THEN [res |-> "panic", tx |-> self]
             ELSE LET c1     == planted(tx_copy, prev_tx, idx, vout)
                      digest == hash(c1)
                      c2     == [c1 EXCEPT !.id = digest, !.vin[idx].pub_key = Empty]
                      signed == [self EXCEPT !.vin[idx].signature =
                                    ed25519_signature(digest, private_key)]
                  IN  sign_loop(signed, private_key, prev_txs, c2, idx + 1)

\* A sign that leaves the last digest it signed in the transaction's id.
sign_keeps_digest(self, private_key, prev_txs) ==
    IF is_coinbase(self) THEN [res |-> "ok", tx |-> self]
    ELSE IF ~prev_txs_correct(self, prev_txs) THEN [res |-> "err", tx |-> self]
    ELSE LET signed == sign_loop(self, private_key, prev_txs, trim_copy(self), 1)
         IN  IF signed.res # "ok" \/ signed.tx.vin = <<>> THEN signed
             ELSE [signed EXCEPT !.tx.id = signed.tx.vin[Len(signed.tx.vin)].signature[3]]

\* Transaction::sign: the result and the transaction as sign leaves it.
sign(self, private_key, prev_txs) ==
    IF is_coinbase(self) THEN [res |-> "ok", tx |-> self]
    ELSE IF ~prev_txs_correct(self, prev_txs) THEN [res |-> "err", tx |-> self]
    ELSE sign_loop(self, private_key, prev_txs, trim_copy(self), 1)

\* Transaction::new_coinbase
new_coinbase(to, data) ==
    LET d  == IF data = Empty THEN <<"data", <<"Reward to", to>>>> ELSE data
        tx == [id   |-> Empty,
               vin  |-> <<TXInput(Empty, -1, Empty, d)>>,
               vout |-> <<TXOutput_new(REWARD, to)>>]
    IN  IF ~get_wallet(to) THEN [res |-> "err", tx |-> NoTx]
        ELSE [res |-> "ok", tx |-> [tx EXCEPT !.id = hash(tx)]]

(***************************************************************************)
(* Finite maps (HashMap, sled tree) as functions with a finite domain.     *)
(***************************************************************************)
EmptyMap == [k \in {} |-> NoTx]
Put(f, k, v) == [j \in DOMAIN f \cup {k} |-> IF j = k THEN v ELSE f[j]]
Remove(f, k) == [j \in DOMAIN f \ {k} |-> f[j]]

\* All sequences of at most n elements of S; TxSeqs keeps those without
\* repetition, Orderings those that list every element of S once.
RECURSIVE SeqsUpTo(_, _)
SeqsUpTo(S, n) ==
    IF n = 0 THEN {<<>>}
    ELSE LET shorter == SeqsUpTo(S, n - 1)
         IN  shorter \cup
             {Append(q, e) : q \in {r \in shorter : Len(r) = n - 1},
                             e \in S} 
NoRepeat(q) == \A i, j \in 1..Len(q) : i # j => q[i] # q[j]
TxSeqs(S, n) == {q \in SeqsUpTo(S, n) : NoRepeat(q)}
Orderings(S) == {q \in SeqsUpTo(S, Cardinality(S)) :
                    Len(q) = Cardinality(S) /\ NoRepeat(q)}

(***************************************************************************)
(* Blocks.                                                                 *)
(***************************************************************************)

\* MergeTx::merge: SHA-256 of left || right, as raw bytes.
merge(left, right) == sha256_raw(<<"cat", left, right>>)

\* CBMT::build_merkle_tree(leaves).root(): node i of the array of 2n-1
\* nodes, whose last n entries are the leaves (0-based as in the crate).
RECURSIVE merkle_node(_, _)
merkle_node(leaves, i) ==
    LET n == Len(leaves)
    IN  IF i >= n - 1 THEN leaves[i - (n - 1) + 1]
        ELSE merge(merkle_node(leaves, 2 * i + 1), merkle_node(leaves, 2 * i + 2))

merkle_root(leaves) == IF leaves = <<>> THEN Empty ELSE merkle_node(leaves, 0)

\* Block::hash_transactions returns the Merkle root of the transactions'
\* hashes; calling Transaction::hash on each transaction in place also
\* clears every transaction's id (hash_transactions_cleared).
hash_transactions(block) ==
    merkle_root([i \in 1..Len(block.transactions) |-> hash(block.transactions[i])])

hash_transactions_cleared(block) ==
    [block EXCEPT !.transactions =
        [i \in 1..Len(block.transactions) |-> hash_cleared(block.transactions[i])]]

\* Block::serialize_block: (prev_block_hash, merkle root, timestamp,
\* TARGET_HEXT, nonce).
serialize_block(block) ==
    <<"blk", block.prev_block_hash, hash_transactions(block), block.timestamp,
      TARGET_HEXT, block.nonce>>

\* Block::validate
validate(block) == digest_prefix(serialize_block(block)) = "0000"

\* Block::run_proof_if_work: the first nonce, counting up from the block's
\* own, that validates; then the hash is recorded.  Every call of validate
\* goes through hash_transactions, which leaves the ids cleared.
RECURSIVE pow_nonce(_)
pow_nonce(block) ==
    IF validate(block) THEN block.nonce
    ELSE pow_nonce([block EXCEPT !.nonce = block.nonce + 1])

run_proof_if_work(block) ==
    LET mined == [hash_transactions_cleared(block) EXCEPT !.nonce = pow_nonce(block)]
    IN  [mined EXCEPT !.hash = sha256_str(serialize_block(mined))]

\* Block::new_block, with the clock reading as a parameter.
new_block(data, prev_block_hash, height, timestamp) ==
    run_proof_if_work([timestamp |-> timestamp, transactions |-> data,
                       prev_block_hash |-> prev_block_hash, hash |-> Empty,
                       height |-> height, nonce |-> 0])

new_genesis_block(cbtx, timestamp) == new_block(<<cbtx>>, Empty, 0, timestamp)

(***************************************************************************)
(* Blockchain.  A Blockchain value bc is the in-memory current_hash with   *)
(* the contents of the "blocks" tree: bc.blocks maps a block hash to the   *)
(* stored block and bc.LAST is the value under the key "LAST" (<<>> when   *)
(* the key is absent).                                                     *)
(***************************************************************************)
Blockchain(current_hash, blocks, LAST) ==
    [current_hash |-> current_hash, blocks |-> blocks, LAST |-> LAST]

\* Blockchain::iter with BlockchainIterator::next: the blocks from
\* current_hash along prev_block_hash, until a hash is not in the store.
RECURSIVE iter_from(_, _)
iter_from(blocks, h) ==
    IF h \notin DOMAIN blocks THEN <<>>
    ELSE <<blocks[h]>> \o iter_from(blocks, blocks[h].prev_block_hash)

iter(bc) == iter_from(bc.blocks, bc.current_hash)

\* The transactions met by "for block in iter() / for tx in transactions".
RECURSIVE txs_of(_)
txs_of(chain) ==
    IF chain = <<>> THEN <<>>
    ELSE Head(chain).transactions \o txs_of(Tail(chain))

\* Blockchain::get_block_hashs
get_block_hashs(bc) == [i \in 1..Len(iter(bc)) |-> iter(bc)[i].hash]

\* Blockchain::find_transaction: the first transaction of the walk whose id
\* is the one asked for.
find_transaction(bc, id) ==
    LET walk == txs_of(iter(bc))
        hits == {i \in 1..Len(walk) : walk[i].id = id}
    IN  IF hits = {} THEN [res |-> "err", tx |-> NoTx]
        ELSE [res |-> "ok",
              tx  |-> walk[CHOOSE i \in hits : \A j \in hits : i <= j]]

\* Blockchain::get_prev_txs: an Err as soon as one input's transaction is
\* not found, else the map from prev_tx.id to prev_tx.
get_prev_txs(bc, tx) ==
    IF \E i \in 1..Len(tx.vin) : find_transaction(bc, tx.vin[i].txid).res = "err"
    THEN [res |-> "err", prev_txs |-> EmptyMap]
    ELSE [res |-> "ok",
          prev_txs |-> [id \in {find_transaction(bc, tx.vin[i].txid).tx.id :
                                    i \in 1..Len(tx.vin)} |->
                           find_transaction(bc, id).tx]]

\* Blockchain::verify_transaction
verify_transaction(bc, tx) ==
    IF is_coinbase(tx) THEN "true"
    ELSE IF get_prev_txs(bc, tx).res = "err" THEN "err"
    ELSE verify(tx, get_prev_txs(bc, tx).prev_txs)

\* Blockchain::sign_transaction
sign_transaction(bc, tx, private_key) ==
    IF get_prev_txs(bc, tx).res = "err" THEN [res |-> "err", tx |-> tx]
    ELSE sign(tx, private_key, get_prev_txs(bc, tx).prev_txs)

\* A tip update that writes LAST and leaves the in-memory hash behind.
set_tip_stored_only(bc, tip) == Blockchain(bc.current_hash, bc.blocks, tip)

\* db.insert("LAST", hash) with self.current_hash = hash
set_tip(bc, tip) == Blockchain(tip, bc.blocks, tip)

\* Blockchain::get_best_height
get_best_height(bc) ==
    IF bc.LAST = Empty THEN [res |-> "err", height |-> 0]
    ELSE IF bc.LAST \notin DOMAIN bc.blocks THEN [res |-> "err", height |-> 0]
    ELSE [res |-> "ok", height |-> bc.blocks[bc.LAST].height]

\* Blockchain::find_utxo.  utxos maps a txid to the outputs pushed for it;
\* spent_txos is kept as the set of (txid, vout) pairs recorded so far.
RECURSIVE find_utxo_outputs(_, _, _, _)
find_utxo_outputs(tx, idx, utxos, spent_txos) ==
    IF idx >= Len(tx.vout) THEN utxos
    ELSE IF <<tx.id, idx>> \in spent_txos
         THEN find_utxo_outputs(tx, idx + 1, utxos, spent_txos)
         ELSE find_utxo_outputs(tx, idx + 1,
                  IF tx.id \in DOMAIN utxos
                  THEN Put(utxos, tx.id, Append(utxos[tx.id], tx.vout[idx + 1]))
                  ELSE Put(utxos, tx.id, <<tx.vout[idx + 1]>>),
                  spent_txos)

RECURSIVE find_utxo_loop(_, _, _)
find_utxo_loop(walk, utxos, spent_txos) ==
    IF walk = <<>> THEN utxos
    ELSE LET tx == Head(walk)
         IN  find_utxo_loop(Tail(walk),
                 find_utxo_outputs(tx, 0, utxos, spent_txos),
                 IF is_coinbase(tx) THEN spent_txos
                 ELSE spent_txos \cup
                      {<<tx.vin[i].txid, tx.vin[i].vout>> : i \in 1..Len(tx.vin)})

find_utxo(bc) == find_utxo_loop(txs_of(iter(bc)), EmptyMap, {})

(***************************************************************************)
(* UTXOSet.  utxos is the "utxos" tree: txid -> TXOutputs.outputs.         *)
(***************************************************************************)
\* UTXOSet::reindex: the directory is removed and one entry is written for
\* every (txid, outs) of Blockchain::find_utxo.
reindex(bc) == find_utxo(bc)

\* UTXOSet::find_spendable_outputs.  order is the order in which db.iter()
\* yields the keys (sled orders them by their bytes, which the ideal hash
\* leaves open).  The result is the accumulated value with the map
\* txid -> selected indices.
RECURSIVE find_spendable_loop(_, _, _, _, _, _, _, _)
find_spendable_loop(utxos, address, amount, order, k, idx, accumulated, unspent_outputs) ==
    IF k > Len(order)
    THEN [accumulated |-> accumulated, unspent_outputs |-> unspent_outputs]
    ELSE LET txid == order[k]
             outs == utxos[txid]
         IN  IF idx >= Len(outs)
             THEN find_spendable_loop(utxos, address, amount, order, k + 1, 0,
                                      accumulated, unspent_outputs)
             ELSE LET take == /\ is_locked_with_key(outs[idx + 1], address)
                              /\ accumulated < amount
                      acc  == IF take THEN accumulated + outs[idx + 1].value
                              ELSE accumulated
                      sel  == IF ~take THEN unspent_outputs
                              ELSE IF txid \in DOMAIN unspent_outputs
                              THEN Put(unspent_outputs, txid,
                                       Append(unspent_outputs[txid], idx))
                              ELSE Put(unspent_outputs, txid, <<idx>>)
                  IN  IF acc >= amount
                      THEN [accumulated |-> acc, unspent_outputs |-> sel]
                      ELSE find_spendable_loop(utxos, address, amount, order, k,
                                               idx + 1, acc, sel)

\* A scan that goes on until accumulated exceeds amount.
find_spendable_beyond(utxos, address, amount, order) ==
    find_spendable_loop(utxos, address, amount + 1, order, 1, 0, 0, EmptyMap)

find_spendable_outputs(utxos, address, amount, order) ==
    find_spendable_loop(utxos, address, amount, order, 1, 0, 0, EmptyMap)

\* UTXOSet::find_utxo: every stored output locked with pub_key_hash.
RECURSIVE utxoset_find_utxo(_, _, _)
utxoset_find_utxo(utxos, pub_key_hash, order) ==
    IF order = <<>> THEN <<>>
    ELSE SelectSeq(utxos[Head(order)], LAMBDA out : is_locked_with_key(out, pub_key_hash))
         \o utxoset_find_utxo(utxos, pub_key_hash, Tail(order))

\* The balance the outputs of UTXOSet::find_utxo add up to.
RECURSIVE sum_values(_)
sum_values(outs) ==
    IF outs = <<>> THEN 0 ELSE Head(outs).value + sum_values(Tail(outs))

balance(utxos, pub_key_hash) ==
    sum_values(utxoset_find_utxo(utxos, pub_key_hash,
                                 CHOOSE o \in Orderings(DOMAIN utxos) : TRUE))

\* UTXOSet::count_transactions
count_transactions(utxos) == Cardinality(DOMAIN utxos)

\* UTXOSet::update.  Every insert and remove reaches the store at once, so
\* a panic on db.get(..).unwrap() leaves the writes made before it.
\* The loop "for out_idx in 0..len: if out_idx != vin.vout as usize: push":
\* the stored vector without the entry at position vout, if there is one.
omit_index(outs, vout) ==
    IF vout >= 0 /\ vout < Len(outs)
    THEN SubSeq(outs, 1, vout) \o SubSeq(outs, vout + 2, Len(outs))
    ELSE outs

RECURSIVE update_inputs(_, _, _)
update_inputs(utxos, vin, i) ==
    IF i > Len(vin) THEN [res |-> "ok", utxos |-> utxos]
    ELSE IF vin[i].txid \notin DOMAIN utxos THEN [res |-> "panic", utxos |-> utxos]
    ELSE LET update_outputs == omit_index(utxos[vin[i].txid], vin[i].vout)
         IN  update_inputs(IF update_outputs = <<>>
                           THEN Remove(utxos, vin[i].txid)
                           ELSE Put(utxos, vin[i].txid, update_outputs),
                           vin, i + 1)

RECURSIVE update_txs(_, _)
update_txs(utxos, txs) ==
    IF txs = <<>> THEN [res |-> "ok", utxos |-> utxos]
    ELSE LET tx    == Head(txs)
             after == IF is_coinbase(tx) THEN [res |-> "ok", utxos |-> utxos]
                      ELSE update_inputs(utxos, tx.vin, 1)
         IN  IF after.res # "ok" THEN after
             ELSE update_txs(Put(after.utxos, tx.id, tx.vout), Tail(txs))

update(utxos, block) == update_txs(utxos, block.transactions)

(***************************************************************************)
(* Transaction::new_utxo.  from is the sender's wallet, horder the order   *)
(* in which the HashMap of selected outputs is iterated.                   *)
(***************************************************************************)
RECURSIVE new_utxo_inputs(_, _, _)
new_utxo_inputs(unspent_outputs, horder, pub_key) ==
    IF horder = <<>> THEN <<>>
    ELSE LET txid == Head(horder)
             outs == unspent_outputs[txid]
         IN  [i \in 1..Len(outs) |-> TXInput(txid, outs[i], Empty, pub_key)]
             \o new_utxo_inputs(unspent_outputs, Tail(horder), pub_key)

new_utxo_unsigned(from, to, amount, acc_v, horder) ==
    [id   |-> Empty,
     vin  |-> new_utxo_inputs(acc_v.unspent_outputs, horder, public_key(from)),
     vout |-> IF acc_v.accumulated > amount
              THEN <<TXOutput_new(amount, to),
                     TXOutput_new(acc_v.accumulated - amount, get_address(from))>>
              ELSE <<TXOutput_new(amount, to)>>]

\* new_utxo setting the id from the hash of the signed transaction.
new_utxo_signed_id(bc, utxos, from, to, amount, order, horder) ==
    LET acc_v  == find_spendable_outputs(utxos, hash_pub_key(public_key(from)),
                                         amount, order)
        tx     == new_utxo_unsigned(from, to, amount, acc_v, horder)
        signed == sign_transaction(bc, [tx EXCEPT !.id = hash(tx)], secret_key(from))
    IN  IF acc_v.accumulated < amount THEN [res |-> "insufficient", tx |-> NoTx]
        ELSE [signed EXCEPT !.tx.id = hash(signed.tx)]

new_utxo(bc, utxos, from, to, amount, order, horder) ==
    LET acc_v == find_spendable_outputs(utxos, hash_pub_key(public_key(from)),
                                        amount, order)
        tx    == new_utxo_unsigned(from, to, amount, acc_v, horder)
    IN  IF acc_v.accumulated < amount THEN [res |-> "insufficient", tx |-> NoTx]
        ELSE sign_transaction(bc, [tx EXCEPT !.id = hash(tx)], secret_key(from))

(***************************************************************************)
(* State.                                                                  *)
(***************************************************************************)
VARIABLES
    opened,        \* data/blocks exists and a Blockchain value is held
    blocks,        \* the "blocks" tree: block hash -> Block
    LAST,          \* the value under the key "LAST", <<>> when absent
    current_hash,  \* Blockchain.current_hash
    utxos,         \* the "utxos" tree: txid -> outputs
    known_txs,     \* transactions built by wallets
    peer_blocks,   \* blocks built by other nodes
    tx_arg,        \* the transaction sign and verify are called on
    prev_txs_arg,  \* the prev_txs map they are called with
    txs_arg,       \* the list mine_block is called with
    spend_arg,     \* the sender, receiver and amount new_utxo is called with
    spendable,     \* what the last find_spendable_outputs returned
    ret,           \* the last call: its name, result and returned transaction
    miners,        \* node address -> the miner_addr its Server was started with
    inner,         \* node address -> the ServerInner behind the node's Mutex
    threads,       \* the worker threads running a handler, as a bag
    network,       \* the messages written to a connection and not yet read, as a bag
    done           \* the last handler that ended: what it ran on and how it ended

chain_vars == <<opened, blocks, LAST, current_hash, utxos, known_txs, peer_blocks>>
args == <<tx_arg, prev_txs_arg, txs_arg, spend_arg, spendable>>
server_vars == <<miners, inner, threads, network, done>>
vars == <<chain_vars, args, ret, server_vars>>

node == Blockchain(current_hash, blocks, LAST)

Ret(op, res, tx) == [op |-> op, res |-> res, tx |-> tx]

\* No payment has been asked for, no selection made.
NoSpend == [from |-> "", to |-> Empty, amount |-> 0]
NoAcc == [accumulated |-> 0, unspent_outputs |-> EmptyMap, order |-> <<>>]

\* No server has been started: no ServerInner, no thread, no message.
NoDone == [node |-> "", cmd |-> "", res |-> "", failed |-> {}, selected |-> {},
           known_nodes |-> {}, mempool |-> {}, sent |-> <<>>]
ServerDown ==
    /\ miners = EmptyMap
    /\ inner = EmptyMap
    /\ threads = EmptyMap
    /\ network = EmptyMap
    /\ done = NoDone

Init ==
    /\ opened = FALSE
    /\ blocks = EmptyMap
    /\ LAST = Empty
    /\ current_hash = Empty
    /\ utxos = EmptyMap
    /\ known_txs = {}
    /\ peer_blocks = {}
    /\ tx_arg = NoTx
    /\ prev_txs_arg = EmptyMap
    /\ txs_arg = <<>>
    /\ spend_arg = NoSpend
    /\ spendable = NoAcc
    /\ ret = Ret("init", "ok", NoTx)
    /\ ServerDown

Stored == {blocks[h] : h \in DOMAIN blocks}
RoomForBlock == Cardinality(Stored \cup peer_blocks) < MaxBlocks

(***************************************************************************)
(* Blockchain operations.                                                  *)
(***************************************************************************)
\* Blockchain::create_blockchain(address).  sled::open has made the
\* directory by the time new_coinbase looks for the wallet of address.
create_blockchain(address, timestamp) ==
    IF opened
    THEN /\ ret' = Ret("create_blockchain", "exists", NoTx)
         /\ UNCHANGED <<opened, blocks, LAST, current_hash, utxos, known_txs,
                        peer_blocks, args, server_vars>>
    ELSE IF new_coinbase(address, GENESIS_COINBASE_DATA).res # "ok"
    THEN /\ opened' = TRUE
         /\ ret' = Ret("create_blockchain", "err", NoTx)
         /\ UNCHANGED <<blocks, LAST, current_hash, utxos, known_txs,
                        peer_blocks, args, server_vars>>
    ELSE LET cbtx    == new_coinbase(address, GENESIS_COINBASE_DATA).tx
             genesis == new_genesis_block(cbtx, timestamp)
         IN  /\ opened' = TRUE
             /\ blocks' = Put(blocks, genesis.hash, genesis)
             /\ LAST' = genesis.hash
             /\ current_hash' = genesis.hash
             /\ ret' = Ret("create_blockchain", "ok", cbtx)
             /\ UNCHANGED <<utxos, known_txs, peer_blocks, args, server_vars>>

\* Blockchain::new() where no chain has been created: sled::open makes an
\* empty tree and current_hash is the empty string.
blockchain_new ==
    /\ ~opened
    /\ opened' = TRUE
    /\ current_hash' = LAST
    /\ ret' = Ret("new", "ok", NoTx)
    /\ UNCHANGED <<blocks, LAST, utxos, known_txs, peer_blocks, args, server_vars>>

\* A verification loop that passes over a transaction found invalid.
RECURSIVE mine_block_verify_lenient(_, _, _)
mine_block_verify_lenient(bc, transactions, i) ==
    IF i > Len(transactions) THEN "ok"
    ELSE LET v == verify_transaction(bc, transactions[i])
         IN  IF v \in {"true", "false"}
             THEN mine_block_verify_lenient(bc, transactions, i + 1)
             ELSE v

\* The result of the verification loop at the head of mine_block: "ok",
\* "invalid" for Err("Invalid transaction"), "err" for the error that
\* verify_transaction returned, "panic".
RECURSIVE mine_block_verify(_, _, _)
mine_block_verify(bc, transactions, i) ==
    IF i > Len(transactions) THEN "ok"
    ELSE LET v == verify_transaction(bc, transactions[i])
         IN  IF v = "true" THEN mine_block_verify(bc, transactions, i + 1)
             ELSE IF v = "false" THEN "invalid"
             ELSE v

\* Blockchain::mine_block(transactions) as a function of the Blockchain
\* value and the clock reading: the result, the store it leaves and the
\* block it returns.
Blockchain_mine_block(bc, transactions, timestamp) ==
    LET checked == mine_block_verify(bc, transactions, 1)
        height  == get_best_height(bc)
        new_blk == new_block(transactions, bc.LAST, height.height, timestamp)
    IN  IF checked # "ok" THEN [res |-> checked, bc |-> bc]
        ELSE IF height.res # "ok" THEN [res |-> "err", bc |-> bc]
        ELSE [res |-> "ok",
              bc  |-> set_tip([bc EXCEPT !.blocks = Put(@, new_blk.hash, new_blk)],
                              new_blk.hash)]

\* Blockchain::mine_block(transactions)
mine_block(transactions, timestamp, cbtx) ==
    /\ opened
    /\ RoomForBlock
    /\ LET mined == Blockchain_mine_block(node, transactions, timestamp)
       IN  /\ blocks' = mined.bc.blocks
           /\ LAST' = mined.bc.LAST
           /\ current_hash' = mined.bc.current_hash
           /\ ret' = Ret("mine_block", mined.res, cbtx)
    /\ UNCHANGED <<opened, utxos, known_txs, peer_blocks, args, server_vars>>

\* mine_block called on a list built as Server::handle_tx builds it: the
\* chosen transactions, then a coinbase paying miner_addr pushed last.
mine(txs, miner_addr, timestamp) ==
    LET cbtx == new_coinbase(miner_addr, Empty).tx
    IN  mine_block(Append(txs, cbtx), timestamp, cbtx)

\* A tip rule that takes whichever block was stored last.
tip_is_latest(block, height) == TRUE

\* A tip rule that lets a block as high as the tip replace it.
tip_is_not_lower(block, height) == block.height >= height

\* The tip rule of add_block: block.get_height() > height
tip_is_higher(block, height) == block.height > height

\* A store that takes every block as new.
never_stored(bc, block) == FALSE

\* The first check of add_block: self.db.get(block.get_hash()) is Some.
already_stored(bc, block) == block.hash \in DOMAIN bc.blocks

\* Blockchain::add_block(block) as a function of the Blockchain value: the
\* result and the store it leaves.
Blockchain_add_block(bc, block) ==
    IF already_stored(bc, block) THEN [res |-> "ok", bc |-> bc]
    ELSE LET inserted == [bc EXCEPT !.blocks = Put(bc.blocks, block.hash, block)]
             height   == get_best_height(inserted)
         IN  IF height.res # "ok" THEN [res |-> "err", bc |-> inserted]
             ELSE IF tip_is_higher(block, height.height)
             THEN [res |-> "ok", bc |-> set_tip(inserted, block.hash)]
             ELSE [res |-> "ok", bc |-> inserted]

\* Blockchain::add_block(block)
add_block(block) ==
    /\ opened
    /\ LET added == Blockchain_add_block(node, block)
       IN  /\ blocks' = added.bc.blocks
           /\ LAST' = added.bc.LAST
           /\ current_hash' = added.bc.current_hash
           /\ ret' = Ret("add_block", added.res, NoTx)
    /\ UNCHANGED <<opened, utxos, known_txs, peer_blocks, args, server_vars>>

\* A block delivered by a peer (BlockMsg.block) goes to add_block.
handle_block(block) == add_block(block)

(***************************************************************************)
(* UTXOSet operations.                                                     *)
(***************************************************************************)
\* The orders in which sled can yield the keys of the utxos tree: byte
\* order, so the empty key first; the order of the hex digests among
\* themselves is not fixed by the model of SHA-256.
KeyOrders(keys) == {o \in Orderings(keys) : \A i \in 2..Len(o) : o[i] # Empty}

\* UTXOSet::reindex
utxo_reindex ==
    /\ opened
    /\ utxos' = reindex(node)
    /\ ret' = Ret("reindex", "ok", NoTx)
    /\ UNCHANGED <<opened, blocks, LAST, current_hash, known_txs, peer_blocks, args, server_vars>>

\* UTXOSet::find_spendable_outputs(pub_key_hash, amount)
utxo_find_spendable_outputs(pub_key_hash, amount) ==
    /\ opened
    /\ \E order \in KeyOrders(DOMAIN utxos) :
         LET found == find_spendable_outputs(utxos, pub_key_hash, amount, order)
         IN  spendable' = [accumulated     |-> found.accumulated,
                           unspent_outputs |-> found.unspent_outputs,
                           order           |-> order]
    /\ ret' = Ret("find_spendable_outputs", "ok", NoTx)
    /\ UNCHANGED <<chain_vars, tx_arg, prev_txs_arg, txs_arg, spend_arg, server_vars>>

\* The utxos tree holds what reindex leaves at the tip whose hash is given.
ReindexedAt(tip) == utxos = reindex(Blockchain(tip, blocks, tip))

\* UTXOSet::update(block), called as the design asks of a caller that has
\* just extended the chain: with the new tip, over a store that is up to
\* date with the tip's parent.  A panic leaves the store half written.
utxo_update(block) ==
    /\ opened
    /\ block.hash = current_hash
    /\ block.prev_block_hash \in DOMAIN blocks
    /\ ReindexedAt(block.prev_block_hash)
    /\ LET updated == update(utxos, block)
       IN  /\ utxos' = updated.utxos
           /\ ret' = Ret("update", updated.res, NoTx)
    /\ UNCHANGED <<opened, blocks, LAST, current_hash, known_txs, peer_blocks, args, server_vars>>

(***************************************************************************)
(* Building transactions.                                                  *)
(***************************************************************************)
RoomForTx(tx) == tx \in known_txs \/ Cardinality(known_txs) < MaxTxs

\* Transaction::new_utxo(from, to, amount, utxoset)
tx_new_utxo(from, to, amount) ==
    /\ opened
    /\ \E order \in KeyOrders(DOMAIN utxos) :
         LET acc_v == find_spendable_outputs(utxos, hash_pub_key(public_key(from)),
                                             amount, order)
         IN  \E horder \in Orderings(DOMAIN acc_v.unspent_outputs) :
               LET made == new_utxo(node, utxos, from, to, amount, order, horder)
               IN  /\ made.res = "ok" => RoomForTx(made.tx)
                   /\ known_txs' = IF made.res = "ok" THEN known_txs \cup {made.tx}
                                   ELSE known_txs
                   /\ ret' = Ret("new_utxo", made.res,
                                 IF made.res = "ok" THEN made.tx ELSE NoTx)
    /\ UNCHANGED <<opened, blocks, LAST, current_hash, utxos, peer_blocks, args, server_vars>>

(***************************************************************************)
(* Other nodes.  A peer builds a block as section 4.3 of the design        *)
(* describes it: on top of a block it knows, one higher, coinbase first,   *)
(* then transactions that verify on its chain, every id kept.              *)
(***************************************************************************)
PeerView ==
    [h \in DOMAIN blocks \cup {b.hash : b \in peer_blocks} |->
        IF \E b \in peer_blocks : b.hash = h
        THEN CHOOSE b \in peer_blocks : b.hash = h
        ELSE blocks[h]]

peer_block(data, parent, timestamp) ==
    LET built == new_block(data, parent.hash, parent.height + 1, timestamp)
    IN  [built EXCEPT !.transactions = data]

peer_mine(txs, miner_addr, parent, timestamp) ==
    /\ RoomForBlock
    /\ LET data == <<new_coinbase(miner_addr, Empty).tx>> \o txs
           view == PeerView
           bc   == Blockchain(parent.hash, view, parent.hash)
       IN  /\ view[parent.hash] = parent
           /\ \A i \in 1..Len(txs) : verify_transaction(bc, txs[i]) = "true"
           /\ peer_blocks' = peer_blocks \cup {peer_block(data, parent, timestamp)}
    /\ ret' = Ret("peer_mine", "ok", NoTx)
    /\ UNCHANGED <<opened, blocks, LAST, current_hash, utxos, known_txs, args, server_vars>>

(***************************************************************************)
(* Specification.                                                          *)
(***************************************************************************)
Next ==
    \/ \E a \in Addresses \cup {Stranger}, t \in Timestamps : create_blockchain(a, t)
    \/ blockchain_new
    \/ \E q \in TxSeqs(known_txs, MaxBlockTxs), a \in Addresses, t \in Timestamps :
          mine(q, a, t)
    \/ \E b \in peer_blocks : handle_block(b)
    \/ utxo_reindex
    \/ \E b \in Stored : utxo_update(b)
    \/ \E k \in Keys, a \in Addresses, n \in Amounts : tx_new_utxo(k, a, n)
    \/ \E q \in TxSeqs(known_txs, MaxBlockTxs), a \in Addresses,
          p \in Stored \cup peer_blocks, t \in Timestamps : peer_mine(q, a, p, t)

Spec == Init /\ [][Next]_vars

(***************************************************************************)
(* Transaction::sign and Transaction::verify on their own: the transaction *)
(* and the prev_txs map are inputs, drawn from a bounded set.              *)
(***************************************************************************)
\* Previous transactions as new_coinbase returns them, ids set.
PrevPool == {new_coinbase(a, Empty).tx : a \in Addresses}

MapById(S) == [id \in {t.id : t \in S} |-> CHOOSE t \in S : t.id = id]

\* Unsigned inputs: any previous transaction, an output index in or out of
\* range, the public key of any wallet.
ArgInputs ==
    {TXInput(t.id, vout, Empty, public_key(k)) :
        t \in PrevPool, vout \in 0..1, k \in Keys}

\* An unsigned transaction as new_utxo has it before it signs.
ArgTx(vin, to) ==
    LET tx == [id |-> Empty, vin |-> vin, vout |-> <<TXOutput_new(REWARD, to)>>]
    IN  [tx EXCEPT !.id = hash(tx)]

InitTx ==
    /\ opened = FALSE
    /\ blocks = EmptyMap
    /\ LAST = Empty
    /\ current_hash = Empty
    /\ utxos = EmptyMap
    /\ known_txs = {}
    /\ peer_blocks = {}
    /\ \E S \in SUBSET PrevPool : prev_txs_arg = MapById(S)
    /\ txs_arg = <<>>
    /\ spend_arg = NoSpend
    /\ spendable = NoAcc
    /\ \E vin \in TxSeqs(ArgInputs, MaxInputs), to \in Addresses :
         vin # <<>> /\ tx_arg = ArgTx(vin, to)
    /\ ret = Ret("init", "ok", NoTx)
    /\ ServerDown

\* Transaction::sign(private_key, prev_txs) on the unsigned transaction
tx_sign(k) ==
    /\ ret.op = "init"
    /\ LET signed == sign(tx_arg, secret_key(k), prev_txs_arg)
       IN  /\ tx_arg' = signed.tx
           /\ ret' = Ret("sign", signed.res, NoTx)
    /\ UNCHANGED <<chain_vars, prev_txs_arg, txs_arg, spend_arg, spendable, server_vars>>

\* Transaction::verify(prev_txs)
tx_verify ==
    /\ ret.op # "verify"
    /\ ret' = Ret("verify", verify(tx_arg, prev_txs_arg), tx_arg)
    /\ UNCHANGED <<chain_vars, args, server_vars>>

\* tx_arg has just been verified and found valid.
Verified == ret.op = "verify" /\ ret.res = "true" /\ ret.tx = tx_arg

\* Well-formed signatures other than the one input idx carries: another
\* key's over the same digest, or the one another input carries.
OtherSignatures(tx, idx) ==
    IF tx.vin[idx].signature = Empty THEN {}
    ELSE ({ed25519_signature(tx.vin[idx].signature[3], secret_key(k)) : k \in Keys}
            \cup {tx.vin[j].signature : j \in 1..Len(tx.vin)})
         \ {tx.vin[idx].signature}

\* verify on the valid transaction with the signature of input idx changed
verify_changed_signature(idx, signature) ==
    /\ Verified
    /\ idx \in 1..Len(tx_arg.vin)
    /\ signature \in OtherSignatures(tx_arg, idx)
    /\ LET changed == [tx_arg EXCEPT !.vin[idx].signature = signature]
       IN  ret' = Ret("verify_changed", verify(changed, prev_txs_arg), changed)
    /\ UNCHANGED <<chain_vars, args, server_vars>>

\* verify on the valid transaction with the pub_key of input idx changed
verify_changed_pub_key(idx, k) ==
    /\ Verified
    /\ idx \in 1..Len(tx_arg.vin)
    /\ public_key(k) # tx_arg.vin[idx].pub_key
    /\ LET changed == [tx_arg EXCEPT !.vin[idx].pub_key = public_key(k)]
       IN  ret' = Ret("verify_changed", verify(changed, prev_txs_arg), changed)
    /\ UNCHANGED <<chain_vars, args, server_vars>>

\* verify on the valid transaction with the pub_key_hash of the output that
\* input idx references changed in prev_txs
verify_changed_prev_output(idx, k) ==
    /\ Verified
    /\ idx \in 1..Len(tx_arg.vin)
    /\ LET in      == tx_arg.vin[idx]
           changed == [prev_txs_arg EXCEPT ![in.txid].vout[in.vout + 1].pub_key_hash =
                          hash_pub_key(public_key(k))]
       IN  /\ changed # prev_txs_arg
           /\ ret' = Ret("verify_changed", verify(tx_arg, changed), tx_arg)
    /\ UNCHANGED <<chain_vars, args, server_vars>>

NextTx ==
    \/ \E k \in Keys : tx_sign(k)
    \/ tx_verify
    \/ \E idx \in 1..Len(tx_arg.vin) :
          \E signature \in OtherSignatures(tx_arg, idx) :
             verify_changed_signature(idx, signature)
    \/ \E idx \in 1..Len(tx_arg.vin), k \in Keys : verify_changed_pub_key(idx, k)
    \/ \E idx \in 1..Len(tx_arg.vin), k \in Keys : verify_changed_prev_output(idx, k)

SpecTx == InitTx /\ [][NextTx]_vars

(***************************************************************************)
(* P2P server.  start_server accepts connections and gives each one to a   *)
(* worker thread of its own; a worker reads one message and runs           *)
(* handle_connection on it.  Every accessor of Server takes the Mutex for  *)
(* the length of its own call, so a handler is a sequence of steps: one    *)
(* step for each accessor call and one for each send_data call.  The       *)
(* steps of different workers interleave freely.                           *)
(***************************************************************************)
KNOWN_NODE == "localhost:3000"
VERSION == 1

\* Two servers: the central node and a second node that mines to wallet A.
\* Nobody listens on Unreachable; CLI is where send_transaction sends from.
N1 == KNOWN_NODE
N2 == "localhost:3001"
Nodes == {N1, N2}
Unreachable == "localhost:3002"
CLI == "localhost:7000"
\* Server.miner_addr of node n
miner_addr(n) == miners[n]

\* The start the nodes are given unless said otherwise: the seed does not
\* mine, the other node mines for A.
SeedRelays == miners = [n \in Nodes |-> IF n = N1 THEN Empty ELSE get_address("A")]

\* Workers running at one time, messages the outside sends in one run.
MaxThreads == 2
MaxSent == 2

NoBlock == [timestamp |-> 0, transactions |-> <<>>, prev_block_hash |-> Empty,
            hash |-> Empty, height |-> 0, nonce |-> 0]

\* Bags as functions from an element to the number of its copies.
BagAdd(b, e) == [x \in DOMAIN b \cup {e} |->
                    IF x = e THEN (IF e \in DOMAIN b THEN b[e] + 1 ELSE 1) ELSE b[x]]
BagDel(b, e) == IF b[e] > 1 THEN [b EXCEPT ![e] = @ - 1]
                ELSE [x \in DOMAIN b \ {e} |-> b[x]]
RECURSIVE BagSizeOver(_, _)
BagSizeOver(b, S) ==
    IF S = {} THEN 0
    ELSE LET e == CHOOSE x \in S : TRUE
         IN  b[e] + BagSizeOver(b, S \ {e})
BagSize(b) == BagSizeOver(b, DOMAIN b)

\* A message on the wire: the command of cmd_to_bytes and the fields of
\* the *Msg struct that follows it; the fields a command lacks are empty.
Msg(to, cmd, addr_from) ==
    [to |-> to, cmd |-> cmd, addr_from |-> addr_from, kind |-> "", items |-> <<>>,
     id |-> Empty, block |-> NoBlock, transaction |-> NoTx, best_height |-> 0,
     nodes |-> {}]
BlockMsg(to, addr_from, block) == [Msg(to, "block", addr_from) EXCEPT !.block = block]
GetBlocksMsg(to, addr_from) == Msg(to, "getblocks", addr_from)
GetDataMsg(to, addr_from, kind, id) ==
    [Msg(to, "getdata", addr_from) EXCEPT !.kind = kind, !.id = id]
InvMsg(to, addr_from, kind, items) ==
    [Msg(to, "inv", addr_from) EXCEPT !.kind = kind, !.items = items]
TxMsg(to, addr_from, transaction) ==
    [Msg(to, "tx", addr_from) EXCEPT !.transaction = transaction]
VersionMsg(to, addr_from, best_height) ==
    [Msg(to, "version", addr_from) EXCEPT !.best_height = best_height]
AddrMsg(to, addr_from, nodes) == [Msg(to, "addr", addr_from) EXCEPT !.nodes = nodes]

\* Server::new: the ServerInner of a node whose UTXOSet holds bc and utxos.
ServerInner(bc, utxo_tree) ==
    [known_nodes |-> {KNOWN_NODE}, bc |-> bc, utxos |-> utxo_tree,
     blocks_in_transit |-> <<>>, mempool |-> EmptyMap, poisoned |-> FALSE]

\* A worker: the message it read, where it is in the handler and the
\* handler's local variables; refused is the address a connect to which
\* has just failed.  failed, selected and sent record, for the
\* properties, the peers removed after a failed connect, the ids the miner
\* loop took out of its copy of the mempool and the messages handed to
\* send_data for another address.
NoAddr == ""
Thread(m) ==
    [node |-> m.to, pc |-> "start", msg |-> m, height |-> 0, best_height |-> 0,
     hashs |-> <<>>, mempool |-> EmptyMap, pending |-> {}, txs |-> <<>>,
     nodes |-> m.nodes, known_nodes |-> {}, new_block |-> NoBlock,
     refused |-> NoAddr, failed |-> {}, selected |-> {}, sent |-> <<>>]

\* The step of worker t that leaves it at t2, and the one that ends it.
Continue(t, t2) ==
    /\ threads' = BagAdd(BagDel(threads, t), t2)
    /\ UNCHANGED <<miners, done, chain_vars, args, ret>>
End(t, last, res) ==
    /\ threads' = BagDel(threads, t)
    /\ done' = [node |-> t.node, cmd |-> t.msg.cmd, res |-> res,
                failed |-> last.failed, selected |-> last.selected,
                known_nodes |-> inner'[t.node].known_nodes,
                mempool |-> DOMAIN inner'[t.node].mempool,
                sent |-> last.sent]
    /\ UNCHANGED <<miners, chain_vars, args, ret>>
Finish(t, res) == End(t, t, res)

\* self.inner.lock().unwrap() panics once a worker has panicked with the
\* Mutex held: the handler ends there, for no fault of its command.
Poisoned(t) == inner[t.node].poisoned
lock_panics(t) ==
    /\ Poisoned(t)
    /\ UNCHANGED <<inner, network>>
    /\ Finish(t, "poisoned")

At(t, pc) == [t EXCEPT !.pc = pc]

\* Server::send_data(addr, data) by worker t, which goes on as t2: nothing
\* to oneself; the bytes to a listening peer; when the connect fails, on
\* to remove_node(addr), with the Mutex not yet taken.
Sent(t, m) == [t EXCEPT !.sent = Append(@, m)]

\* A send_data that takes the Mutex before it connects.
send_data_locked(t, addr, m, t2) ==
    IF addr = t.node
    THEN UNCHANGED <<inner, network>> /\ Continue(t, t2)
    ELSE IF addr \in Nodes
    THEN /\ network' = BagAdd(network, m)
         /\ UNCHANGED inner
         /\ Continue(t, Sent(t2, m))
    ELSE IF inner[t.node].poisoned
    THEN UNCHANGED <<inner, network>> /\ End(t, t, "poisoned")
    ELSE /\ inner' = [inner EXCEPT ![t.node].known_nodes = @ \ {addr}]
         /\ UNCHANGED network
         /\ LET t3 == [Sent(t2, m) EXCEPT !.failed = @ \cup {addr}]
            IN  IF t2.pc = "return" THEN End(t, t3, "ok") ELSE Continue(t, t3)

send_data(t, addr, m, t2) ==
    IF addr = t.node
    THEN UNCHANGED <<inner, network>> /\ Continue(t, t2)
    ELSE IF addr \in Nodes
    THEN /\ network' = BagAdd(network, m)
         /\ UNCHANGED inner
         /\ Continue(t, Sent(t2, m))
    ELSE /\ UNCHANGED <<inner, network>>
         /\ Continue(t, [Sent(t2, m) EXCEPT !.refused = addr])

\* The same when the send is the handler's last statement.
send_data_last(t, addr, m) ==
    IF addr = t.node
    THEN UNCHANGED <<inner, network>> /\ Finish(t, "ok")
    ELSE IF addr \in Nodes
    THEN /\ network' = BagAdd(network, m)
         /\ UNCHANGED inner
         /\ End(t, Sent(t, m), "ok")
    ELSE send_data(t, addr, m, At(t, "return"))

\* A step that takes the Mutex, leaves the ServerInner of t's node as
\* changed and the worker at t2; the same as the handler's last step; and
\* a step that panics with the Mutex held.
locked(t, changed, t2) ==
    IF Poisoned(t) THEN lock_panics(t)
    ELSE /\ inner' = [inner EXCEPT ![t.node] = changed]
         /\ UNCHANGED network
         /\ Continue(t, t2)
locked_last(t, changed, res) ==
    IF Poisoned(t) THEN lock_panics(t)
    ELSE /\ inner' = [inner EXCEPT ![t.node] = changed]
         /\ UNCHANGED network
         /\ Finish(t, res)
locked_panic(t) ==
    IF Poisoned(t) THEN lock_panics(t)
    ELSE /\ inner' = [inner EXCEPT ![t.node].poisoned = TRUE]
         /\ UNCHANGED network
         /\ Finish(t, "panic")
\* A panic of the worker while it does not hold the Mutex.
panics(t) == UNCHANGED <<inner, network>> /\ Finish(t, "panic")
Self(t) == inner[t.node]

\* A remove_node that send_data calls with the Mutex still in its hands: the
\* lock it asks for is held by its own caller, and is never granted.
remove_node_held(t) ==
    /\ t.refused = NoAddr
    /\ inner' = [inner EXCEPT ![t.node].known_nodes = @ \ {t.refused}]
    /\ UNCHANGED network
    /\ Continue(t, [t EXCEPT !.refused = NoAddr])

\* Server::remove_node(addr), called by send_data after the connect to
\* addr failed; send_data then returns Ok.
remove_node(t) ==
    LET removed == [Self(t) EXCEPT !.known_nodes = @ \ {t.refused}]
        t2      == [t EXCEPT !.refused = NoAddr, !.failed = @ \cup {t.refused}]
    IN  IF Poisoned(t) THEN lock_panics(t)
        ELSE /\ inner' = [inner EXCEPT ![t.node] = removed]
             /\ UNCHANGED network
             /\ IF t.pc = "return" THEN End(t, t2, "ok") ELSE Continue(t, t2)

(***************************************************************************)
(* The handlers.  handle_x(t) is the next step of worker t in handle_x.    *)
(***************************************************************************)
\* A comparison that answers a version of its own height too.
version_branch_echo(my_best_height, best_height) ==
    IF my_best_height < best_height THEN "get_blocks" ELSE "version"

\* What handle_version goes on to after comparing the heights.
version_branch(my_best_height, best_height) ==
    IF my_best_height < best_height THEN "get_blocks"
    ELSE IF my_best_height > best_height THEN "version"
    ELSE "addr"

\* Server::handle_version
handle_version(t) ==
    LET msg  == t.msg
        best == get_best_height(Self(t).bc)
    IN  CASE t.pc = "start" ->
               \* let my_best_height = self.get_best_height()?
               IF best.res # "ok" THEN locked_last(t, Self(t), "err")
               ELSE locked(t, Self(t),
                           [t EXCEPT !.height = best.height,
                                     !.pc = version_branch(best.height,
                                                           msg.best_height)])
          [] t.pc = "get_blocks" ->
               send_data(t, msg.addr_from, GetBlocksMsg(msg.addr_from, t.node),
                         At(t, "addr"))
          [] t.pc = "version" ->
               \* send_version reads the best height again
               IF best.res # "ok" THEN locked_last(t, Self(t), "err")
               ELSE locked(t, Self(t),
                           [t EXCEPT !.best_height = best.height,
                                     !.pc = "version_send"])
          [] t.pc = "version_send" ->
               send_data(t, msg.addr_from,
                         VersionMsg(msg.addr_from, t.node, t.best_height),
                         At(t, "addr"))
          [] t.pc = "addr" ->
               locked(t, Self(t),
                      [t EXCEPT !.nodes = Self(t).known_nodes, !.pc = "addr_send"])
          [] t.pc = "addr_send" ->
               send_data(t, msg.addr_from, AddrMsg(msg.addr_from, t.node, t.nodes),
                         At(t, "known"))
          [] t.pc = "known" ->
               IF msg.addr_from \in Self(t).known_nodes
               THEN locked_last(t, Self(t), "ok")
               ELSE locked(t, Self(t), At(t, "add"))
          [] t.pc = "add" ->
               locked_last(t, [Self(t) EXCEPT !.known_nodes = @ \cup {msg.addr_from}],
                           "ok")

\* Server::handle_addr: add_nodes for each node of the message, in the
\* order of the Vec, which is the order the sender's HashSet gave.
handle_addr(t) ==
    IF t.nodes = {} THEN UNCHANGED <<inner, network>> /\ Finish(t, "ok")
    ELSE \E n \in t.nodes :
            LET added == [Self(t) EXCEPT !.known_nodes = @ \cup {n}]
            IN  IF t.nodes = {n} THEN locked_last(t, added, "ok")
                ELSE locked(t, added, [t EXCEPT !.nodes = @ \ {n}])

\* Server::handle_block
handle_block_step(t) ==
    LET msg   == t.msg
        added == Blockchain_add_block(Self(t).bc, msg.block)
    IN  CASE t.pc = "start" ->
               IF added.res # "ok"
               THEN locked_last(t, [Self(t) EXCEPT !.bc = added.bc], "err")
               ELSE locked(t, [Self(t) EXCEPT !.bc = added.bc], At(t, "in_transit"))
          [] t.pc = "in_transit" ->
               locked(t, Self(t),
                      [t EXCEPT !.hashs = Self(t).blocks_in_transit,
                                !.pc = IF Len(Self(t).blocks_in_transit) > 0
                                       THEN "get_data" ELSE "reindex"])
          [] t.pc = "get_data" ->
               send_data(t, msg.addr_from,
                         GetDataMsg(msg.addr_from, t.node, "block", t.hashs[1]),
                         At(t, "replace"))
          [] t.pc = "replace" ->
               locked_last(t, [Self(t) EXCEPT !.blocks_in_transit = Tail(t.hashs)],
                           "ok")
          [] t.pc = "reindex" ->
               locked_last(t, [Self(t) EXCEPT !.utxos = reindex(Self(t).bc)], "ok")

\* The blocks handle_inv leaves in transit: every item that is not the
\* first one.
new_in_transit(items) == SelectSeq(items, LAMBDA b : b # items[1])

\* Server::handle_inv
handle_inv(t) ==
    LET msg == t.msg
    IN  IF msg.items = <<>> THEN panics(t)      \* msg.items[0]
        ELSE IF msg.kind = "block" THEN
          CASE t.pc = "start" ->
                 send_data(t, msg.addr_from,
                           GetDataMsg(msg.addr_from, t.node, "block", msg.items[1]),
                           At(t, "replace"))
            [] t.pc = "replace" ->
                 locked_last(t, [Self(t) EXCEPT
                                   !.blocks_in_transit = new_in_transit(msg.items)],
                             "ok")
        ELSE IF msg.kind = "tx" THEN
          CASE t.pc = "start" ->
                 LET txid == msg.items[1]
                 IN  IF txid \in DOMAIN Self(t).mempool
                        /\ Self(t).mempool[txid].id # Empty
                     THEN locked_last(t, Self(t), "ok")
                     ELSE locked(t, Self(t), At(t, "get_data"))
            [] t.pc = "get_data" ->
                 send_data_last(t, msg.addr_from,
                                GetDataMsg(msg.addr_from, t.node, "tx", msg.items[1]))
        ELSE UNCHANGED <<inner, network>> /\ Finish(t, "ok")

\* Server::handle_get_blocks
handle_get_blocks(t) ==
    CASE t.pc = "start" ->
           locked(t, Self(t),
                  [t EXCEPT !.hashs = get_block_hashs(Self(t).bc), !.pc = "inv"])
      [] t.pc = "inv" ->
           send_data_last(t, t.msg.addr_from,
                          InvMsg(t.msg.addr_from, t.node, "block", t.hashs))

\* Server::handle_get_data
handle_get_data(t) ==
    LET msg == t.msg
    IN  IF msg.kind = "block" THEN
          CASE t.pc = "start" ->
                 IF msg.id \notin DOMAIN Self(t).bc.blocks
                 THEN locked_last(t, Self(t), "err")
                 ELSE locked(t, Self(t),
                             [t EXCEPT !.new_block = Self(t).bc.blocks[msg.id],
                                       !.pc = "send"])
            [] t.pc = "send" ->
                 send_data_last(t, msg.addr_from,
                                BlockMsg(msg.addr_from, t.node, t.new_block))
        ELSE IF msg.kind = "tx" THEN
          CASE t.pc = "start" ->
                 \* get_mempool_tx(&msg.id).unwrap(): the guard is dropped
                 \* before the unwrap
                 IF Poisoned(t) THEN lock_panics(t)
                 ELSE IF msg.id \notin DOMAIN Self(t).mempool THEN panics(t)
                 ELSE locked(t, Self(t),
                             [t EXCEPT !.txs = <<Self(t).mempool[msg.id]>>,
                                       !.pc = "send"])
            [] t.pc = "send" ->
                 send_data_last(t, msg.addr_from,
                                TxMsg(msg.addr_from, t.node, t.txs[1]))
        ELSE UNCHANGED <<inner, network>> /\ Finish(t, "ok")

\* The miner loop of handle_tx once every transaction of its copy of the
\* mempool has been tried: return when none verified; else push the
\* coinbase, take the chosen ids out of the copy and go on to mine_block.
miner_chosen(t, txs) ==
    LET cbtx == new_coinbase(miner_addr(t.node), Empty)
        all  == Append(txs, cbtx.tx)
        ids  == {all[i].id : i \in 1..Len(all)}
    IN  IF txs = <<>> THEN locked_last(t, Self(t), "ok")
        ELSE IF cbtx.res # "ok" THEN locked_last(t, Self(t), "err")
        ELSE locked(t, Self(t),
                    [t EXCEPT !.pending = {}, !.txs = all,
                              !.mempool = [id \in DOMAIN t.mempool \ ids |->
                                              t.mempool[id]],
                              !.selected = @ \cup {txs[i].id : i \in 1..Len(txs)},
                              !.pc = "mine"])

\* A miner loop that goes round again with the copy of the mempool as it
\* was when the loop began.
miner_next_refilled(t) ==
    IF DOMAIN Self(t).mempool = {} THEN [t EXCEPT !.nodes = {}, !.pc = "clear"]
    ELSE [t EXCEPT !.nodes = {}, !.mempool = Self(t).mempool,
                   !.pending = DOMAIN Self(t).mempool, !.txs = <<>>,
                   !.pc = "verify"]

\* The end of one iteration of the miner loop: break when the copy of the
\* mempool is empty, else try what is left of it.
miner_next(t) ==
    IF DOMAIN t.mempool = {} THEN [t EXCEPT !.nodes = {}, !.pc = "clear"]
    ELSE [t EXCEPT !.nodes = {}, !.pending = DOMAIN t.mempool, !.txs = <<>>,
                   !.pc = "verify"]

\* A handle_tx in which every node goes on to the miner loop.
relays_never(node_addr) == FALSE

\* if self.node_addr == KNOWN_NODE
relays(node_addr) == node_addr = KNOWN_NODE

\* Server::handle_tx; timestamp is what the clock reads in new_block.
handle_tx(t, timestamp) ==
    LET msg == t.msg
    IN  CASE t.pc = "start" ->
               locked(t, [Self(t) EXCEPT !.mempool =
                             Put(@, msg.transaction.id, msg.transaction)],
                      At(t, "nodes"))
          [] t.pc = "nodes" ->
               LET known_nodes == Self(t).known_nodes
                   to          == known_nodes \ {t.node, msg.addr_from}
                   t2          == [t EXCEPT !.known_nodes = known_nodes]
               IN  IF relays(t.node)
                   THEN IF to = {} THEN locked_last(t, Self(t), "ok")
                        ELSE locked(t, Self(t),
                                    [t2 EXCEPT !.nodes = to, !.pc = "relay"])
                   ELSE locked(t, Self(t), At(t2, "mempool"))
          [] t.pc = "relay" ->
               \E n \in t.nodes :
                  LET inv == InvMsg(n, t.node, "tx", <<msg.transaction.id>>)
                  IN  IF t.nodes = {n} THEN send_data_last(t, n, inv)
                      ELSE send_data(t, n, inv, [t EXCEPT !.nodes = @ \ {n}])
          [] t.pc = "mempool" ->
               IF DOMAIN Self(t).mempool # {} /\ miner_addr(t.node) # Empty
               THEN locked(t, Self(t),
                           [t EXCEPT !.mempool = Self(t).mempool,
                                     !.pending = DOMAIN Self(t).mempool,
                                     !.txs = <<>>, !.pc = "verify"])
               ELSE locked_last(t, Self(t), "ok")
          [] t.pc = "verify" ->
               \E id \in t.pending :
                  LET tx  == t.mempool[id]
                      v   == verify_transaction(Self(t).bc, tx)
                      txs == IF v = "true" THEN Append(t.txs, tx) ELSE t.txs
                  IN  IF v = "err" THEN locked_last(t, Self(t), "err")
                      ELSE IF v = "panic" THEN locked_panic(t)
                      ELSE IF t.pending # {id}
                      THEN locked(t, Self(t),
                                  [t EXCEPT !.pending = @ \ {id}, !.txs = txs])
                      ELSE miner_chosen(t, txs)
          [] t.pc = "mine" ->
               LET mined == Blockchain_mine_block(Self(t).bc, t.txs, timestamp)
               IN  IF mined.res = "panic" THEN locked_panic(t)
                   ELSE IF mined.res # "ok" THEN locked_last(t, Self(t), "err")
                   ELSE locked(t, [Self(t) EXCEPT !.bc = mined.bc],
                               [t EXCEPT !.new_block =
                                            mined.bc.blocks[mined.bc.current_hash],
                                         !.pc = "reindex"])
          [] t.pc = "reindex" ->
               locked(t, [Self(t) EXCEPT !.utxos = reindex(Self(t).bc)],
                      At(t, "inv_nodes"))
          [] t.pc = "inv_nodes" ->
               LET to == Self(t).known_nodes \ {t.node}
               IN  IF to = {} THEN locked(t, Self(t), miner_next(t))
                   ELSE locked(t, Self(t), [t EXCEPT !.nodes = to, !.pc = "inv"])
          [] t.pc = "inv" ->
               \E n \in t.nodes :
                  send_data(t, n, InvMsg(n, t.node, "block", <<t.new_block.hash>>),
                            IF t.nodes = {n} THEN miner_next(t)
                            ELSE [t EXCEPT !.nodes = @ \ {n}])
          [] t.pc = "clear" ->
               locked_last(t, [Self(t) EXCEPT !.mempool = EmptyMap], "ok")

\* start_server: a connection is accepted and a worker spawned for it; the
\* worker reads the message (handle_connection).
handle_connection(m) ==
    /\ m.to \in DOMAIN inner
    /\ BagSize(threads) < MaxThreads
    /\ network' = BagDel(network, m)
    /\ threads' = BagAdd(threads, Thread(m))
    /\ UNCHANGED <<miners, inner, done, chain_vars, args, ret>>

\* The next step of a worker: the match of handle_connection.
Running(cmd) == {t \in DOMAIN threads : t.msg.cmd = cmd /\ t.refused = NoAddr}

\* The workers whose connect failed.
Refused == {t \in DOMAIN threads : t.refused # NoAddr}

(***************************************************************************)
(* Synchronisation of two nodes.  N1 holds a chain it has built up from    *)
(* the genesis block with blocks its peers sent it; N2 holds a shorter     *)
(* one and has just called send_version(N1).                               *)
(***************************************************************************)
GenesisOf(k) ==
    new_genesis_block(new_coinbase(get_address(k), GENESIS_COINBASE_DATA).tx, 1)
B1 == peer_block(<<new_coinbase(get_address("A"), Empty).tx>>, GenesisOf("A"), 1)
B2 == peer_block(<<new_coinbase(get_address("B"), Empty).tx>>, B1, 1)

\* The Blockchain after create_blockchain wrote genesis and add_block took
\* the blocks of received, in that order.
RECURSIVE chain_with(_, _)
chain_with(genesis, received) ==
    IF received = <<>>
    THEN Blockchain(genesis.hash, Put(EmptyMap, genesis.hash, genesis), genesis.hash)
    ELSE Blockchain_add_block(
             chain_with(genesis, SubSeq(received, 1, Len(received) - 1)),
             received[Len(received)]).bc

\* A server started on a chain whose utxos tree is up to date.
Started(bc) == ServerInner(bc, reindex(bc))

InitSync ==
    /\ opened = FALSE
    /\ blocks = EmptyMap
    /\ LAST = Empty
    /\ current_hash = Empty
    /\ utxos = EmptyMap
    /\ known_txs = {}
    /\ peer_blocks = {}
    /\ tx_arg = NoTx
    /\ prev_txs_arg = EmptyMap
    /\ txs_arg = <<>>
    /\ spend_arg = NoSpend
    /\ spendable = NoAcc
    /\ ret = Ret("init", "ok", NoTx)
    /\ \E c1 \in {<<B1>>, <<B1, B2>>, <<B2, B1>>},
          c2 \in {<<>>, <<B1>>},
          k2 \in Keys :
          LET bc1 == chain_with(GenesisOf("A"), c1)
              bc2 == chain_with(GenesisOf(k2), c2)
          IN  /\ get_best_height(bc2).height < get_best_height(bc1).height
              /\ inner = [n \in Nodes |-> IF n = N1 THEN Started(bc1)
                                          ELSE Started(bc2)]
              /\ network = BagAdd(EmptyMap,
                                  VersionMsg(N1, N2, get_best_height(bc2).height))
    /\ threads = EmptyMap
    /\ done = NoDone
    /\ SeedRelays

NextSync ==
    \/ \E m \in DOMAIN network : handle_connection(m)
    \/ \E t \in Running("version") : handle_version(t)
    \/ \E t \in Running("addr") : handle_addr(t)
    \/ \E t \in Running("getblocks") : handle_get_blocks(t)
    \/ \E t \in Running("inv") : handle_inv(t)
    \/ \E t \in Running("getdata") : handle_get_data(t)
    \/ \E t \in Running("block") : handle_block_step(t)

SpecSync == InitSync /\ [][NextSync]_vars

(***************************************************************************)
(* Two running nodes and what reaches them from outside.  Both hold        *)
(* genesis and B1, or N2 was started on an empty data directory; N1 has    *)
(* learnt of N2 from an earlier version message.  The messages in flight   *)
(* at the start are the ones senders outside the two nodes have written.   *)
(***************************************************************************)
cbA == new_coinbase(get_address("A"), Empty).tx
cbB == new_coinbase(get_address("B"), Empty).tx

\* A's spend of the output of cbA, built and signed as new_utxo does it.
SpendOf(to) ==
    LET bc == chain_with(GenesisOf("A"), <<B1>>)
        tx == ArgTx(<<TXInput(cbA.id, 0, Empty, public_key("A"))>>, to)
    IN  sign_transaction(bc, tx, secret_key("A")).tx

\* Transactions a sender can put in a tx message: a coinbase; a valid
\* spend; a spend whose pub_key was changed after signing; one whose input
\* names a transaction no block holds; one whose input names an output
\* index the referenced transaction does not have.
TxPool ==
    {cbB,
     SpendOf(get_address("B")),
     [SpendOf(get_address("A")) EXCEPT !.vin[1].pub_key = public_key("B")],
     ArgTx(<<TXInput(cbB.id, 0, Empty, public_key("A"))>>, get_address("B")),
     ArgTx(<<TXInput(cbA.id, 1, Empty, public_key("A"))>>, get_address("B"))}

\* A block whose nonce was not searched for: validate fails on it.
Forged ==
    LET blk == B2
    IN  [blk EXCEPT !.nonce = blk.nonce + 1]

\* What arrives from outside: transactions for either node, a version and
\* a getdata from a peer that is gone by the time it is answered, a block
\* nobody asked for.
Outside ==
    {TxMsg(n, CLI, tx) : n \in Nodes, tx \in TxPool}
    \cup {VersionMsg(n, Unreachable, h) : n \in Nodes, h \in {0, 1, 2}}
    \cup {GetDataMsg(N1, Unreachable, kind, cbB.id) : kind \in {"block", "tx"}}
    \cup {BlockMsg(N2, Unreachable, b) : b \in {B2, Forged}}

RECURSIVE BagOf(_)
BagOf(q) == IF q = <<>> THEN EmptyMap ELSE BagAdd(BagOf(Tail(q)), Head(q))

InitNode ==
    /\ opened = FALSE
    /\ blocks = EmptyMap
    /\ LAST = Empty
    /\ current_hash = Empty
    /\ utxos = EmptyMap
    /\ known_txs = {}
    /\ peer_blocks = {}
    /\ tx_arg = NoTx
    /\ prev_txs_arg = EmptyMap
    /\ txs_arg = <<>>
    /\ spend_arg = NoSpend
    /\ spendable = NoAcc
    /\ ret = Ret("init", "ok", NoTx)
    /\ \E bc2 \in {chain_with(GenesisOf("A"), <<B1>>), Blockchain(Empty, EmptyMap, Empty)} :
          inner = [n \in Nodes |->
                     IF n = N1
                     THEN [Started(chain_with(GenesisOf("A"), <<B1>>)) EXCEPT
                              !.known_nodes = {N1, N2}]
                     ELSE Started(bc2)]
    /\ \E q \in SeqsUpTo(Outside, MaxSent) : network = BagOf(q)
    /\ threads = EmptyMap
    /\ done = NoDone
    /\ SeedRelays

\* No addr and no getblocks message comes about here: handle_version sends
\* them to the sender of the version message, which is gone.
NextNode ==
    \/ \E m \in DOMAIN network : handle_connection(m)
    \/ \E t \in Running("version") : handle_version(t)
    \/ \E t \in Running("inv") : handle_inv(t)
    \/ \E t \in Running("getdata") : handle_get_data(t)
    \/ \E t \in Running("block") : handle_block_step(t)
    \/ \E t \in Running("tx"), timestamp \in Timestamps : handle_tx(t, timestamp)
    \/ \E t \in Refused : remove_node(t)

SpecNode == InitNode /\ [][NextNode]_vars


(***************************************************************************)
(* Two running nodes in each role.  The seed N1 holds genesis and B1 and   *)
(* knows N2, and perhaps a peer that is gone; N2 holds the same chain or   *)
(* genesis alone; either may have been started with a miner_addr.  N2 has  *)
(* called send_version(N1), or a wallet sends a transaction to a node, or  *)
(* a peer that is gone by the time it is answered has sent its version.    *)
(***************************************************************************)
MinerAddrs ==
    {[n \in Nodes |-> IF n = N1 THEN m1 ELSE m2] :
        m1 \in {Empty, get_address("A")}, m2 \in {Empty, get_address("A")}}

PeersOutside(bc2) ==
    {VersionMsg(N1, N2, get_best_height(bc2).height)}
    \cup {TxMsg(n, CLI, SpendOf(get_address("B"))) : n \in Nodes}
    \cup {VersionMsg(N1, Unreachable, h) : h \in {0, 2}}

InitPeers ==
    /\ opened = FALSE
    /\ blocks = EmptyMap
    /\ LAST = Empty
    /\ current_hash = Empty
    /\ utxos = EmptyMap
    /\ known_txs = {}
    /\ peer_blocks = {}
    /\ tx_arg = NoTx
    /\ prev_txs_arg = EmptyMap
    /\ txs_arg = <<>>
    /\ spend_arg = NoSpend
    /\ spendable = NoAcc
    /\ ret = Ret("init", "ok", NoTx)
    /\ miners \in MinerAddrs
    /\ \E received \in {<<>>, <<B1>>}, gone \in SUBSET {Unreachable} :
          LET bc2 == chain_with(GenesisOf("A"), received)
          IN  /\ inner = [n \in Nodes |->
                            IF n = N1
                            THEN [Started(chain_with(GenesisOf("A"), <<B1>>)) EXCEPT
                                     !.known_nodes = {N1, N2} \cup gone]
                            ELSE Started(bc2)]
              /\ \E m \in PeersOutside(bc2) : network = BagAdd(EmptyMap, m)
    /\ threads = EmptyMap
    /\ done = NoDone

NextPeers ==
    \/ \E m \in DOMAIN network : handle_connection(m)
    \/ \E t \in Running("version") : handle_version(t)
    \/ \E t \in Running("addr") : handle_addr(t)
    \/ \E t \in Running("getblocks") : handle_get_blocks(t)
    \/ \E t \in Running("inv") : handle_inv(t)
    \/ \E t \in Running("getdata") : handle_get_data(t)
    \/ \E t \in Running("block") : handle_block_step(t)
    \/ \E t \in Running("tx"), timestamp \in Timestamps : handle_tx(t, timestamp)
    \/ \E t \in Refused : remove_node(t)

SpecPeers == InitPeers /\ [][NextPeers]_vars

(***************************************************************************)
(* Blockchain::mine_block on its own: the store and the list of            *)
(* transactions are inputs, drawn from bounded sets.                       *)
(***************************************************************************)
MaxMineTxs == 2

InitMine ==
    /\ opened = TRUE
    /\ \E bc \in {chain_with(GenesisOf("A"), <<B1>>), chain_with(GenesisOf("A"), <<>>),
                  Blockchain(Empty, EmptyMap, Empty)} :
          /\ blocks = bc.blocks
          /\ LAST = bc.LAST
          /\ current_hash = bc.current_hash
          /\ utxos = reindex(bc)
    /\ known_txs = {}
    /\ peer_blocks = {}
    /\ tx_arg = NoTx
    /\ prev_txs_arg = EmptyMap
    /\ txs_arg \in TxSeqs(TxPool, MaxMineTxs)
    /\ spend_arg = NoSpend
    /\ spendable = NoAcc
    /\ ret = Ret("init", "ok", NoTx)
    /\ ServerDown

NextMine ==
    \E timestamp \in Timestamps :
       ret.op = "init" /\ mine_block(txs_arg, timestamp, NoTx)

SpecMine == InitMine /\ [][NextMine]_vars

(***************************************************************************)
(* Payments on their own: a wallet asks for new_utxo(from, to, amount) on  *)
(* a chain whose utxos tree is up to date; the transaction is mined with a *)
(* coinbase for the miner's wallet and the tree rebuilt.                   *)
(***************************************************************************)
\* A peer's block on the genesis block whose coinbase pays B.
P1 == peer_block(<<cbB>>, GenesisOf("A"), 1)

\* What new_utxo returns to A's wallet asked to send -30 to B.
SendNegative ==
    LET bc == chain_with(GenesisOf("A"), <<P1>>)
    IN  new_utxo(bc, reindex(bc), "A", get_address("B"), -30,
                 CHOOSE o \in KeyOrders(DOMAIN reindex(bc)) : TRUE, <<>>).tx

\* A peer's block on P1 that holds it.
PNeg == peer_block(<<cbA, SendNegative>>, P1, 1)

SpendChains == {<<>>, <<B1>>, <<P1>>, <<P1, PNeg>>}
SpendAmounts == {-30, 0, 30, 70, 100, 170}

InitSpend ==
    /\ opened = TRUE
    /\ \E received \in SpendChains :
          LET bc == chain_with(GenesisOf("A"), received)
          IN  /\ blocks = bc.blocks
              /\ LAST = bc.LAST
              /\ current_hash = bc.current_hash
              /\ utxos = reindex(bc)
              /\ peer_blocks = {received[i] : i \in 1..Len(received)}
    /\ known_txs = {}
    /\ tx_arg = NoTx
    /\ prev_txs_arg = EmptyMap
    /\ txs_arg = <<>>
    /\ \E from \in Keys, to \in Addresses, amount \in SpendAmounts :
          spend_arg = [from |-> from, to |-> to, amount |-> amount]
    /\ spendable = NoAcc
    /\ ret = Ret("init", "ok", NoTx)
    /\ ServerDown

NextSpend ==
    \/ /\ ret.op = "init"
       /\ utxo_find_spendable_outputs(hash_pub_key(public_key(spend_arg.from)),
                                      spend_arg.amount)
    \/ /\ ret.op \in {"init", "find_spendable_outputs"}
       /\ tx_new_utxo(spend_arg.from, spend_arg.to, spend_arg.amount)
    \/ /\ ret.op = "new_utxo" /\ ret.res = "ok"
       /\ \E t \in Timestamps : mine(<<ret.tx>>, Miner, t)
    \/ /\ ret.op = "mine_block"
       /\ utxo_reindex

SpecSpend == InitSpend /\ [][NextSpend]_vars

(***************************************************************************)
(* Properties of Transaction::verify, checked under SpecTx.                *)
(***************************************************************************)
\* The output that input in references in prev_txs.
referenced_output(prev_txs, in) == prev_txs[in.txid].vout[in.vout + 1]

\* C1: verify returns true for a non-coinbase transaction only if every
\* input's pub_key hashes (hash_pub_key) to the pub_key_hash of the output
\* it references in prev_txs: a transaction signed with another key pair
\* than the one the output is locked to is never accepted.
C1_SpendingAuthorised ==
    (ret.op = "verify" /\ ret.res = "true" /\ ~is_coinbase(ret.tx)) =>
        \A i \in 1..Len(ret.tx.vin) :
            uses_key(ret.tx.vin[i],
                     referenced_output(prev_txs_arg, ret.tx.vin[i]).pub_key_hash)

\* C10: once verify has returned true for a non-coinbase transaction,
\* verify on the transaction with the signature or the pub_key of any input
\* changed, or with the pub_key_hash of any referenced output of prev_txs
\* changed, returns false.
C10_TamperDetected == ret.op = "verify_changed" => ret.res = "false"

\* A valid transaction was verified again with a referenced output's
\* pub_key_hash changed in prev_txs, and was rejected.
C10_Witness ==
    /\ ret.op = "verify_changed"
    /\ ret.res = "false"
    /\ ret.tx = tx_arg
    /\ ~is_coinbase(tx_arg)
    /\ verify(tx_arg, prev_txs_arg) = "true"

(***************************************************************************)
(* Properties of the chain, the UTXO index and new_utxo, checked under     *)
(* Spec.                                                                   *)
(***************************************************************************)
\* The transactions on the chain from the tip, newest block first.
chain_txs == txs_of(iter(node))

\* Transaction t is in a block of the chain (blocks store it id-less).
on_chain(t) ==
    \E i \in 1..Len(chain_txs) : hash_cleared(chain_txs[i]) = hash_cleared(t)

outpoints_of(t) == {<<t.vin[i].txid, t.vin[i].vout>> : i \in 1..Len(t.vin)}

\* C2: of two correctly signed transactions that spend the same
\* (txid, vout), once a block containing the first has been mined onto the
\* chain, verify_transaction does not return true for the second.
C2_DoubleSpendRejected ==
    \A t1, t2 \in known_txs :
        (/\ t1 # t2
         /\ outpoints_of(t1) \cap outpoints_of(t2) # {}
         /\ on_chain(t1)
         /\ ~on_chain(t2))
        => verify_transaction(node, t2) # "true"

\* C3: a successful mine_block on a chain whose tip has hash t and height h
\* stores, under its own hash, a block with prev_block_hash = t and
\* height = h + 1, and makes it the tip (LAST and current_hash).
C3_MineExtendsTip ==
    [][(ret'.op = "mine_block" /\ ret'.res = "ok") =>
          /\ LAST' \in DOMAIN blocks'
          /\ blocks'[LAST'].hash = LAST'
          /\ current_hash' = LAST'
          /\ blocks'[LAST'].prev_block_hash = LAST
          /\ blocks'[LAST'].height = blocks[LAST].height + 1]_vars

\* C4: every stored block other than the genesis has a stored parent, the
\* block whose hash is its prev_block_hash, and is one higher than it.
C4_ChainLinked ==
    \A b \in Stored :
        b.prev_block_hash # Empty =>
            /\ b.prev_block_hash \in DOMAIN blocks
            /\ blocks[b.prev_block_hash].height + 1 = b.height

\* C5: the height of the block LAST designates (get_best_height) never
\* decreases from one state to the next.
C5_TipMonotonic ==
    [][get_best_height(node).res = "ok" =>
          /\ get_best_height(node').res = "ok"
          /\ get_best_height(node').height >= get_best_height(node).height]_vars

\* add_block has stored a block that did not become the tip, the tip being
\* above the genesis.
C5_Witness ==
    /\ ret.op = "add_block"
    /\ get_best_height(node).res = "ok"
    /\ get_best_height(node).height > 0
    /\ \E b \in Stored : b.height < get_best_height(node).height /\ b.height > 0

\* C6: after reindex or update, the entry stored for a txid holds each
\* unspent output at the position equal to its index in the transaction's
\* vout: every position idx of the entry for txid is output idx of the
\* transaction txid of the chain.
C6_PositionsAreIndices ==
    ret.op \in {"reindex", "update"} =>
        \A txid \in DOMAIN utxos : \A idx \in 0..(Len(utxos[txid]) - 1) :
            LET found == find_transaction(node, txid)
            IN  /\ found.res = "ok"
                /\ idx < Len(found.tx.vout)
                /\ found.tx.vout[idx + 1] = utxos[txid][idx + 1]

\* C7: find_utxo holds an output (txid, i) iff it is an output of a
\* transaction of the chain and no non-coinbase input of the chain
\* references (txid, i).
C7_FindUtxoIsReplay ==
    LET result     == find_utxo(node)
        held       == UNION {{<<txid, i - 1>> : i \in 1..Len(result[txid])} :
                                txid \in DOMAIN result}
        created    == UNION {{<<chain_txs[n].id, i - 1>> : i \in 1..Len(chain_txs[n].vout)} :
                                n \in 1..Len(chain_txs)}
        referenced == UNION {outpoints_of(chain_txs[n]) :
                                n \in {m \in 1..Len(chain_txs) : ~is_coinbase(chain_txs[m])}}
    IN  held = created \ referenced

\* C8: update(b) with the new tip b, on a store reindex produced at the
\* tip's parent, leaves the store as a fresh reindex at the new tip does.
C8_UpdateIsReindex ==
    ret.op = "update" => (ret.res = "ok" /\ utxos = reindex(node))

\* Transaction tx with every input's signature emptied.
unsigned(tx) ==
    [tx EXCEPT !.vin = [i \in 1..Len(tx.vin) |->
                           [tx.vin[i] EXCEPT !.signature = Empty]]]

\* The last call returned a transaction made by new_coinbase or new_utxo.
returned_tx ==
    \/ ret.op = "new_utxo" /\ ret.res = "ok"
    \/ ret.op = "create_blockchain" /\ ret.res = "ok"
    \/ ret.op = "mine_block"

\* C9 as stated: a transaction returned by new_coinbase or by new_utxo has
\* id equal to the hash of that same transaction with its id cleared.
C9_IdIsHash == returned_tx => ret.tx.id = hash(ret.tx)

\* C9 as the code has it: the id is the hash of the transaction with its
\* id cleared and every input's signature empty (it is set before signing).
C9_IdIsUnsignedHash == returned_tx => ret.tx.id = hash(unsigned(ret.tx))

\* new_utxo returned a signed transaction with a change output.
C9_Witness ==
    /\ ret.op = "new_utxo"
    /\ ret.res = "ok"
    /\ Len(ret.tx.vout) = 2
    /\ \A i \in 1..Len(ret.tx.vin) : ret.tx.vin[i].signature # Empty

(***************************************************************************)
(* Properties of the P2P server.                                           *)
(***************************************************************************)
\* The exchange has ended: no message is on its way and no worker runs.
SyncEnded == network = EmptyMap /\ threads = EmptyMap
hash_set(bc) == {get_block_hashs(bc)[i] : i \in 1..Len(get_block_hashs(bc))}

\* C11: when N2, whose best height is lower than N1's, has sent version to
\* N1 and every message has been delivered and handled, N2's best height
\* is N1's, N2's get_block_hashs is N1's as a set and N2's utxos tree is
\* what reindex leaves on N2's chain.
C11_SyncConverges ==
    SyncEnded =>
        /\ get_best_height(inner[N2].bc) = get_best_height(inner[N1].bc)
        /\ hash_set(inner[N2].bc) = hash_set(inner[N1].bc)
        /\ inner[N2].utxos = reindex(inner[N2].bc)

\* Worker t has begun its handler: it has made a step and has more to make.
Begun(t) == t.pc # "start"
\* Two workers of one node, told apart or two copies of one.
TwoWorkers(t1, t2) == t1.node = t2.node /\ (t1 # t2 \/ threads[t1] > 1)
\* Worker t is in handle_block between get_in_transit and the end.
ReadHead(t) == t.msg.cmd = "block" /\ t.pc \in {"get_data", "replace"}

\* C12: a handler holds the lock from its first access of the shared state
\* to its last, so no two workers of one node are inside their handlers at
\* the same time; in particular no two handle_block workers have read the
\* same head of blocks_in_transit.
C12_HandlersAtomic ==
    \A t1, t2 \in DOMAIN threads :
        TwoWorkers(t1, t2) =>
            /\ ~(Begun(t1) /\ Begun(t2))
            /\ ~(ReadHead(t1) /\ ReadHead(t2) /\ t1.hashs[1] = t2.hashs[1])

\* The utxos tree of node n is what reindex leaves on n's chain.
Reflects(srv) == srv.utxos = reindex(srv.bc)

\* C13: the tip and the utxos tree change together: in the state a step
\* leaves with a new tip on a node, that node's utxos tree already
\* reflects the chain up to the new tip.
C13_TipWithUtxos ==
    [][\A n \in Nodes :
          inner'[n].bc.LAST # inner[n].bc.LAST => Reflects(inner'[n])]_vars

\* C14: a command that fails ends alone: no later handler ends because it
\* could not take the lock on the shared state.
C14_FailureIsLocal == done.res # "poisoned"

\* C15: when a handler ends, no peer a connect to which failed during the
\* handler is in known_nodes of the handler's node.
C15_FailedPeerEvicted == done.failed \cap done.known_nodes = {}

\* C16: the transactions the miner loop has chosen are out of the node's
\* mempool when mine_block is called, and out of it when handle_tx ends,
\* however it ends.
C16_ChosenLeaveMempool ==
    /\ \A t \in Running("tx") :
          t.pc = "mine" => t.selected \cap DOMAIN inner[t.node].mempool = {}
    /\ done.cmd = "tx" => done.selected \cap done.mempool = {}

\* C18: every block in a node's blocks tree carries the hash of its own
\* header, and that hash meets the target: a block that fails the check
\* of validate is not stored.
C18_ProofOfWork ==
    \A n \in Nodes : \A h \in DOMAIN inner[n].bc.blocks :
        LET b == inner[n].bc.blocks[h]
        IN  b.hash = sha256_str(serialize_block(b)) /\ validate(b)

\* The blocks a block message can carry.
BlockPool == {GenesisOf("A"), B1, B2, Forged}

\* C19: add_block of a block whose hash is stored leaves blocks, LAST and
\* current_hash as they are, and add_block twice leaves what add_block
\* once leaves, in every state the nodes can be in.
C19_AddBlockIdempotent ==
    \A n \in Nodes : \A b \in BlockPool :
        LET bc   == inner[n].bc
            once == Blockchain_add_block(bc, b).bc
        IN  /\ b.hash \in DOMAIN bc.blocks => once = bc
            /\ Blockchain_add_block(once, b).bc = once

\* A worker has run add_block on the forged block while B2 was stored
\* under the same hash.
C19_Witness ==
    \E t \in Running("block") :
        /\ t.msg.block = Forged
        /\ t.pc # "start"
        /\ Forged.hash \in DOMAIN inner[t.node].bc.blocks
        /\ inner[t.node].bc.blocks[Forged.hash] = B2

(***************************************************************************)
(* Properties of the block store, checked under Spec.                      *)
(***************************************************************************)
\* C17: the first transaction of every stored block is a coinbase.
C17_CoinbaseFirst ==
    \A b \in Stored : b.transactions # <<>> /\ is_coinbase(b.transactions[1])

(***************************************************************************)
(* Properties of Blockchain::mine_block, checked under SpecMine.           *)
(***************************************************************************)
\* What verify_transaction says of the i-th transaction of the list.
verdict(i) == verify_transaction(node, txs_arg[i])
store_unchanged == UNCHANGED <<blocks, LAST, current_hash>>

\* C20: mine_block returns the InvalidTransaction error whenever
\* verify_transaction returns false for some transaction of the list, and
\* then, as when verify_transaction returns an error for one, blocks, LAST
\* and current_hash stay as they were.
C20_InvalidRejected ==
    [][ret'.op = "mine_block" =>
         /\ (\E i \in 1..Len(txs_arg) : verdict(i) = "false") => ret'.res = "invalid"
         /\ (\E i \in 1..Len(txs_arg) : verdict(i) \in {"false", "err"})
               => store_unchanged]_vars

\* C20 as amended: the first transaction of the list for which
\* verify_transaction does not return true decides: InvalidTransaction when
\* it returns false for it, its own error when it returns an error for
\* it, a panic when it panics on it; in each of these cases blocks, LAST
\* and current_hash stay as they were.
C20_FirstFailureDecides ==
    [][ret'.op = "mine_block" =>
         \A i \in 1..Len(txs_arg) :
            (\A j \in 1..(i - 1) : verdict(j) = "true") =>
               /\ verdict(i) = "false" => (ret'.res = "invalid" /\ store_unchanged)
               /\ verdict(i) = "err" => (ret'.res = "err" /\ store_unchanged)
               /\ verdict(i) = "panic" => (ret'.res = "panic" /\ store_unchanged)]_vars

\* mine_block has returned InvalidTransaction on a list of two
\* transactions for one of which verify_transaction returns an error.
C20_Witness ==
    /\ ret.op = "mine_block"
    /\ ret.res = "invalid"
    /\ Len(txs_arg) = 2
    /\ \E i \in 1..Len(txs_arg) : verdict(i) = "err"

(***************************************************************************)
(* Properties of Transaction::sign followed by Transaction::verify,        *)
(* checked under SpecTx.                                                   *)
(***************************************************************************)
\* Every input of tx references an output of a transaction of prev_txs and
\* carries the public key of wallet k.
spends_own(tx, prev_txs, k) ==
    /\ ~is_coinbase(tx)
    /\ prev_txs_correct(tx, prev_txs)
    /\ \A i \in 1..Len(tx.vin) :
          /\ vout_in_range(prev_txs[tx.vin[i].txid], tx.vin[i].vout)
          /\ tx.vin[i].pub_key = public_key(k)

\* The digest verify computes for input idx: the hash of the trimmed copy
\* with the referenced output's pub_key_hash planted in that input.
verify_digest(tx, prev_txs, idx) ==
    hash(planted(trim_copy(tx), prev_txs[tx.vin[idx].txid], idx, tx.vin[idx].vout))

C26_TipRule ==
    [][\A b \in peer_blocks :
          (handle_block(b) /\ ~already_stored(node, b)) =>
             /\ blocks' = Put(blocks, b.hash, b)
             /\ get_best_height(node).res = "ok" =>
                   IF b.height > get_best_height(node).height
                   THEN LAST' = b.hash /\ current_hash' = b.hash
                   ELSE UNCHANGED <<LAST, current_hash>>]_vars

\* add_block has stored a block as high as the tip, which is another block.
C26_Witness ==
    /\ ret.op = "add_block"
    /\ LAST \in DOMAIN blocks
    /\ \E b \in Stored : b.hash # LAST /\ b.height = blocks[LAST].height

(***************************************************************************)
(* Properties of Blockchain::create_blockchain, checked under Spec.        *)
(***************************************************************************)
\* What create_blockchain(address) is to leave where no store existed: one
\* block, the tip, of height 0 and without parent, whose one transaction
\* is a coinbase paying the reward to address.
genesis_only(bc, address) ==
    /\ Cardinality(DOMAIN bc.blocks) = 1
    /\ bc.LAST \in DOMAIN bc.blocks
    /\ LET genesis == bc.blocks[bc.LAST]
       IN  /\ genesis.hash = bc.LAST
           /\ genesis.height = 0
           /\ genesis.prev_block_hash = Empty
           /\ Len(genesis.transactions) = 1
           /\ is_coinbase(genesis.transactions[1])
           /\ genesis.transactions[1].vout = <<TXOutput_new(REWARD, address)>>
    /\ get_best_height(bc) = [res |-> "ok", height |-> 0]
    /\ balance(reindex(bc), address_decode(address)) = REWARD

\* C23: create_blockchain(address) fails and leaves the store as it is
\* when the blocks directory exists; otherwise it leaves the store with
\* the genesis block alone, paying the reward to address.
C23_Genesis ==
    [][\A a \in Addresses \cup {Stranger}, t \in Timestamps :
          create_blockchain(a, t) =>
             IF opened
             THEN ret'.res = "exists" /\ UNCHANGED <<blocks, LAST, current_hash>>
             ELSE genesis_only(node', a)]_vars

(***************************************************************************)
(* Properties of UTXOSet::find_spendable_outputs, checked under SpecSpend. *)
(***************************************************************************)
\* The (txid, idx) pairs of a map txid -> indices.
pairs_of(unspent_outputs) ==
    UNION {{<<txid, unspent_outputs[txid][i]>> : i \in 1..Len(unspent_outputs[txid])} :
              txid \in DOMAIN unspent_outputs}

\* The stored outputs locked to pub_key_hash, as (txid, idx) pairs.
locked_pairs(pub_key_hash) ==
    {p \in {<<txid, idx>> : txid \in DOMAIN utxos, idx \in 0..MaxInputs} :
        /\ p[2] < Len(utxos[p[1]])
        /\ is_locked_with_key(utxos[p[1]][p[2] + 1], pub_key_hash)}

RECURSIVE sum_pairs(_)
sum_pairs(S) ==
    IF S = {} THEN 0
    ELSE LET p == CHOOSE q \in S : TRUE
         IN  utxos[p[1]][p[2] + 1].value + sum_pairs(S \ {p})

\* Where the scan in the given order meets a pair.
scan_position(order, p) ==
    <<CHOOSE k \in 1..Len(order) : order[k] = p[1], p[2]>>
scanned_before(order, p, q) ==
    \/ scan_position(order, p)[1] < scan_position(order, q)[1]
    \/ /\ scan_position(order, p)[1] = scan_position(order, q)[1]
       /\ p[2] <= q[2]

spend_key == hash_pub_key(public_key(spend_arg.from))

\* C29: find_spendable_outputs(pub_key_hash, amount) selects stored outputs
\* locked to pub_key_hash only, each once; accumulated is the sum of their
\* values; and either accumulated >= amount, the selection without the
\* output the scan took last adding up to less than amount, or every
\* stored output locked to pub_key_hash is selected.
C29_Spendable ==
    ret.op = "find_spendable_outputs" =>
       LET selected == pairs_of(spendable.unspent_outputs)
           last     == CHOOSE p \in selected :
                          \A q \in selected : scanned_before(spendable.order, q, p)
       IN  /\ selected \subseteq locked_pairs(spend_key)
           /\ \A txid \in DOMAIN spendable.unspent_outputs :
                 NoRepeat(spendable.unspent_outputs[txid])
           /\ spendable.accumulated = sum_pairs(selected)
           /\ \/ /\ spendable.accumulated >= spend_arg.amount
                 /\ selected # {} => sum_pairs(selected \ {last}) < spend_arg.amount
              \/ selected = locked_pairs(spend_key)

\* The scan took two outputs to reach the amount.
C29_Witness ==
    /\ ret.op = "find_spendable_outputs"
    /\ Cardinality(pairs_of(spendable.unspent_outputs)) = 2
    /\ spendable.accumulated >= spend_arg.amount
    /\ locked_pairs(spend_key) # pairs_of(spendable.unspent_outputs)

(***************************************************************************)
(* Properties of Transaction::new_utxo, checked under SpecSpend.           *)
(***************************************************************************)
\* C21: new_utxo fails for want of funds, returns no transaction and
\* changes nothing whenever the values of all stored outputs locked to the
\* sender's pub_key_hash add up to less than amount.
C21_InsufficientFunds ==
    [][(/\ tx_new_utxo(spend_arg.from, spend_arg.to, spend_arg.amount)
        /\ balance(utxos, spend_key) < spend_arg.amount) =>
          /\ ret'.res = "insufficient"
          /\ ret'.tx = NoTx
          /\ UNCHANGED <<chain_vars, args, server_vars>>]_vars

\* The store is as create_blockchain(A) and reindex left it and A's wallet
\* sends 30 to B.
sends_thirty ==
    /\ peer_blocks = {}
    /\ GenesisOf("A") \in Stored
    /\ spend_arg = [from |-> "A", to |-> get_address("B"), amount |-> 30]

\* C22: after create_blockchain(A) and reindex, new_utxo(A, B, 30)
\* succeeds, mine_block on it with a coinbase for the miner's own address
\* succeeds, and once the utxos tree is rebuilt the outputs locked to B add
\* up to 30 and those locked to A to 70.
C22_SendWithChange ==
    sends_thirty =>
       /\ ret.op = "new_utxo" => ret.res = "ok"
       /\ ret.op = "mine_block" => ret.res = "ok"
       /\ ret.op = "reindex" =>
             /\ balance(utxos, hash_pub_key(public_key("B"))) = 30
             /\ balance(utxos, hash_pub_key(public_key("A"))) = 70

(***************************************************************************)
(* Properties of the drain of blocks_in_transit, checked under SpecSync.   *)
(***************************************************************************)
\* C27: after inv(block, items) the node has asked for items[0] and holds
\* the other items in order; each block message handled after it asks for
\* the head of blocks_in_transit and removes that head alone, so that
\* every item is asked for once, in order; and the utxos tree is rebuilt
\* exactly when a block message arrives with blocks_in_transit empty.
\* Hence: a worker of handle_block that asks for or removes a head does so
\* on the queue as it is; one that rebuilds the tree does so with the
\* queue empty; and when all is handled nothing is left in transit.
C27_DrainOrder ==
    /\ \A t \in DOMAIN threads :
          t.msg.cmd = "block" =>
             /\ t.pc \in {"get_data", "replace"} =>
                   t.hashs = inner[t.node].blocks_in_transit
             /\ t.pc = "reindex" => inner[t.node].blocks_in_transit = <<>>
    /\ (threads = EmptyMap /\ network = EmptyMap) =>
          \A n \in DOMAIN inner : inner[n].blocks_in_transit = <<>>

(***************************************************************************)
(* Properties of the roles of the nodes, checked under SpecPeers.          *)
(***************************************************************************)
\* The step is one of worker t in handle_tx, and its last.
tx_returns(t) ==
    /\ IF t \in Refused THEN remove_node(t)
       ELSE \E timestamp \in Timestamps : handle_tx(t, timestamp)
    /\ BagSize(threads') < BagSize(threads)

\* The known_nodes handle_tx has read, or is reading in this step.
tx_known_nodes(t) ==
    IF t.pc \in {"start", "nodes"} THEN inner[t.node].known_nodes ELSE t.known_nodes

\* The chain of node n is what add_block of a block message made of it.
by_add_block(n) ==
    \E t \in Running("block") :
       /\ t.node = n
       /\ inner'[n].bc = Blockchain_add_block(inner[n].bc, t.msg.block).bc

\* C24: the seed node never goes on to mine_block in handle_tx, whatever
\* its miner_addr and mempool, and sends inv(tx, [id]) to every node it
\* knows but itself and the sender; another node goes on to mine_block in
\* handle_tx only with a miner_addr; the chain of a node without
\* miner_addr changes through add_block alone.
C24_MiningRoles ==
    /\ [](\A t \in DOMAIN threads :
            (t.msg.cmd = "tx" /\ t.pc = "mine") =>
               t.node # KNOWN_NODE /\ miner_addr(t.node) # Empty)
    /\ [][/\ \A t \in DOMAIN threads :
               (t.msg.cmd = "tx" /\ t.node = KNOWN_NODE /\ tx_returns(t)) =>
                  LET to == tx_known_nodes(t) \ {t.node, t.msg.addr_from}
                  IN  /\ done'.res = "ok"
                      /\ Len(done'.sent) = Cardinality(to)
                      /\ {done'.sent[i] : i \in 1..Len(done'.sent)} =
                            {InvMsg(n, t.node, "tx", <<t.msg.transaction.id>>) :
                                n \in to}
          /\ \A n \in Nodes :
               (/\ n = KNOWN_NODE \/ miner_addr(n) = Empty
                /\ inner'[n].bc # inner[n].bc) => by_add_block(n)]_vars

\* The seed, started with a miner_addr, has relayed a transaction.
C24_Witness ==
    /\ done.node = KNOWN_NODE
    /\ done.cmd = "tx"
    /\ miner_addr(KNOWN_NODE) # Empty
    /\ done.sent = <<InvMsg(N2, KNOWN_NODE, "tx", <<SpendOf(get_address("B")).id>>)>>

(***************************************************************************)
(* Properties of send_data and the Mutex, checked under SpecPeers.         *)
(***************************************************************************)
\* Worker t takes the step.
steps(t) == t \notin DOMAIN threads' \/ threads'[t] < threads[t]

\* The step is one in which a worker connects to another address, to write
\* to it if the connect succeeds: it has handed one more message to
\* send_data.
connects ==
    \E t \in DOMAIN threads :
       /\ steps(t)
       /\ \/ \E t2 \in DOMAIN threads' :
                /\ t2 \notin DOMAIN threads \/ threads'[t2] > threads[t2]
                /\ t2.node = t.node /\ t2.msg = t.msg
                /\ Len(t2.sent) = Len(t.sent) + 1
          \/ /\ BagSize(threads') < BagSize(threads)
             /\ done'.node = t.node /\ done'.cmd = t.msg.cmd
             /\ Len(done'.sent) = Len(t.sent) + 1

sent_cmds(t) == [i \in 1..Len(t.sent) |-> t.sent[i].cmd]

\* The step is the last of worker t in handle_version, with Ok.
version_returns(t) ==
    /\ t \notin Refused
    /\ t.pc \in {"known", "add"}
    /\ handle_version(t)
    /\ BagSize(threads') < BagSize(threads)

\* C28: on a version message of best_height r from another address, a
\* node of best height l sends getblocks to the sender iff l < r, its own
\* version iff l > r, neither when l = r; it then sends addr to the
\* sender, and the sender is in known_nodes when the handler returns.  A
\* version sent in answer carries a greater height than the one it
\* answers, so that two nodes do not go on answering each other.
C28_VersionHandshake ==
    /\ [](\A t \in DOMAIN threads :
            (t.msg.cmd = "version" /\ t.pc \in {"known", "add"}) =>
               /\ \A i \in 1..Len(t.sent) : t.sent[i].to = t.msg.addr_from
               /\ sent_cmds(t) = IF t.height < t.msg.best_height
                                 THEN <<"getblocks", "addr">>
                                 ELSE IF t.height > t.msg.best_height
                                 THEN <<"version", "addr">>
                                 ELSE <<"addr">>
               /\ \A i \in 1..Len(t.sent) :
                     t.sent[i].cmd = "version" =>
                        t.sent[i].best_height > t.msg.best_height)
    /\ [][\A t \in DOMAIN threads :
             (t.msg.cmd = "version" /\ version_returns(t)) =>
                /\ done'.res = "ok"
                /\ t.msg.addr_from \in inner'[t.node].known_nodes]_vars

\* N2, the shorter node, has had the seed's version in answer to its own
\* and asked the seed for its blocks.
C28_Witness ==
    \E t \in DOMAIN threads :
       /\ t.node = N2
       /\ t.msg = VersionMsg(N2, N1, 1)
       /\ t.pc = "known"
       /\ sent_cmds(t) = <<"getblocks", "addr">>

(***************************************************************************)
(* mine_block and add_block on one Blockchain value after                  *)
(* create_blockchain: mine_block is given lists that pass or fail its      *)
(* verification, add_block blocks that are above, level with or below the  *)
(* tip, with or without their parent in the store.                         *)
(***************************************************************************)
\* Blocks a peer can deliver: the two blocks of a chain on the genesis
\* block, a rival of the first, and the second with a nonce nobody searched.
TipBlocks == {B1, B2, P1, Forged}

\* A transaction without inputs that pays B the amount of a reward.
Minted == ArgTx(<<>>, get_address("B"))

\* What mine_block can be asked to mine (known_txs): the transactions peers
\* send, what new_utxo returned for a negative amount, and the one above.
TipPool == TxPool \cup {SendNegative, Minted}

InitTip ==
    /\ opened = TRUE
    /\ \E bc \in {chain_with(GenesisOf("A"), <<>>), chain_with(GenesisOf("A"), <<B1>>)} :
          /\ blocks = bc.blocks
          /\ LAST = bc.LAST
          /\ current_hash = bc.current_hash
          /\ utxos = reindex(bc)
    /\ known_txs = TipPool
    /\ peer_blocks = {}
    /\ tx_arg = NoTx
    /\ prev_txs_arg = EmptyMap
    /\ txs_arg = <<>>
    /\ spend_arg = NoSpend
    /\ spendable = NoAcc
    /\ ret = Ret("create_blockchain", "ok", NoTx)
    /\ ServerDown

NextTip ==
    \/ \E q \in TxSeqs(known_txs, MaxBlockTxs), a \in Addresses, t \in Timestamps :
          mine(q, a, t)
    \/ \E b \in TipBlocks : add_block(b)

SpecTip == InitTip /\ [][NextTip]_vars

\* create_blockchain has written its genesis block.
created == \E b \in Stored : b.prev_block_hash = Empty

\* C38: once create_blockchain has succeeded, whatever mine_block and
\* add_block calls follow and however they end, LAST names a stored block
\* and current_hash is the value of LAST.
C38_TipValid ==
    created => LAST \in DOMAIN blocks /\ current_hash = LAST

\* A mine_block has failed on a chain that holds a block add_block stored
\* without moving the tip to it.
C38_Witness ==
    /\ created
    /\ ret.op = "mine_block" /\ ret.res # "ok"
    /\ \E b \in Stored : b.hash # LAST /\ b.height >= blocks[LAST].height

(***************************************************************************)
(* The shape of what Transaction::new_utxo returns, checked under          *)
(* SpecSpend.                                                              *)
(***************************************************************************)
\* The values of the outputs the inputs of tx name, looked up on the chain.
referenced(bc, tx) ==
    [i \in 1..Len(tx.vin) |->
        find_transaction(bc, tx.vin[i].txid).tx.vout[tx.vin[i].vout + 1]]

\* C34: a transaction new_utxo returns, whatever the amount asked for, has
\* at least one input, only outputs of a value above zero, and outputs that
\* add up to what the outputs its inputs name add up to.
C34_SpendShape ==
    (ret.op = "new_utxo" /\ ret.res = "ok") =>
        /\ Len(ret.tx.vin) >= 1
        /\ \A i \in 1..Len(ret.tx.vout) : ret.tx.vout[i].value > 0
        /\ sum_values(ret.tx.vout) = sum_values(referenced(node, ret.tx))

(***************************************************************************)
(* What a block keeps of the transactions it was built from, checked under *)
(* SpecMine.                                                               *)
(***************************************************************************)
\* C32: when mine_block(txs) succeeds, the block it stored holds at each
\* position the transaction it was given, id, inputs and outputs alike, and
\* find_transaction(t.id) returns t for every t of txs.
C32_BlockKeepsTransactions ==
    [][\A timestamp \in Timestamps :
          (mine_block(txs_arg, timestamp, NoTx) /\ ret'.res = "ok") =>
             /\ blocks'[LAST'].transactions = txs_arg
             /\ \A i \in 1..Len(txs_arg) :
                   find_transaction(node', txs_arg[i].id) =
                       [res |-> "ok", tx |-> txs_arg[i]]]_vars

(***************************************************************************)
(* The supply of coins, checked under SpecTip.                             *)
(***************************************************************************)
\* The values of all outputs of a txid -> outputs map, added up.
RECURSIVE total_value(_, _)
total_value(utxos_map, keys) ==
    IF keys = {} THEN 0
    ELSE LET k == CHOOSE x \in keys : TRUE
         IN  sum_values(utxos_map[k]) + total_value(utxos_map, keys \ {k})

supply(bc) == total_value(find_utxo(bc), DOMAIN find_utxo(bc))

\* The coinbase transactions of the blocks from the tip to genesis.
coinbases(bc) ==
    Cardinality({i \in 1..Len(txs_of(iter(bc))) : is_coinbase(txs_of(iter(bc))[i])})

\* Every block of the store was mined here: none came through add_block.
mined_here == \A b \in Stored : b \notin TipBlocks

\* C33: on a chain built by create_blockchain and mine_block alone, each
\* mine_block given transactions that pass verify_transaction and one
\* coinbase, the outputs find_utxo returns are worth REWARD times the
\* number of coinbase transactions on the chain.
C33_Supply ==
    mined_here => supply(node) = REWARD * coinbases(node)

(***************************************************************************)
(* The walk from the tip, checked under SpecSync.                          *)
(***************************************************************************)
\* Both nodes hold the genesis block the chain being synchronised starts
\* from.
same_genesis == \A n \in Nodes : GenesisOf("A").hash \in DOMAIN inner[n].bc.blocks

\* C31: at every moment of a node, between two block messages of a sync
\* too, iter() from the tip yields the tip, each block's stored parent in
\* turn, and stops only after a block whose prev_block_hash is empty.  Here
\* for two nodes that start from the same genesis block.
C31_IterReachesGenesis ==
    same_genesis =>
        \A n \in Nodes :
            LET chain == iter(inner[n].bc)
            IN  /\ chain # <<>>
                /\ chain[Len(chain)].prev_block_hash = Empty

(***************************************************************************)
(* The queue of blocks to fetch, checked under SpecInv.                    *)
(***************************************************************************)
\* N2, on the genesis block, has sent getblocks twice (once for each
\* version message it got) and has two inv answers on their way: one lists
\* the chain of N1, the other the same chain or one that ends in P1.
InitInv ==
    /\ opened = FALSE
    /\ blocks = EmptyMap
    /\ LAST = Empty
    /\ current_hash = Empty
    /\ utxos = EmptyMap
    /\ known_txs = {}
    /\ peer_blocks = {}
    /\ tx_arg = NoTx
    /\ prev_txs_arg = EmptyMap
    /\ txs_arg = <<>>
    /\ spend_arg = NoSpend
    /\ spendable = NoAcc
    /\ ret = Ret("init", "ok", NoTx)
    /\ \E c1 \in {<<B1>>, <<B1, B2>>} :
          LET bc1 == chain_with(GenesisOf("A"), c1)
              bc2 == chain_with(GenesisOf("A"), <<>>)
              inv == InvMsg(N2, N1, "block", get_block_hashs(bc1))
              alt == InvMsg(N2, N1, "block",
                            get_block_hashs(chain_with(GenesisOf("A"), <<P1>>)))
          IN  /\ inner = [n \in Nodes |-> IF n = N1 THEN Started(bc1)
                                          ELSE Started(bc2)]
              /\ \E second \in {inv, alt} : network = BagOf(<<inv, second>>)
    /\ threads = EmptyMap
    /\ done = NoDone
    /\ SeedRelays

NextInv ==
    \/ \E m \in DOMAIN network : handle_connection(m)
    \/ \E t \in Running("inv") : handle_inv(t)
    \/ \E t \in Running("getdata") : handle_get_data(t)
    \/ \E t \in Running("block") : handle_block_step(t)

SpecInv == InitInv /\ [][NextInv]_vars

\* The hashes of a queue.
queued(q) == {q[i] : i \in 1..Len(q)}

\* C37: a hash leaves blocks_in_transit only as the head of the queue, in
\* the step of a handle_block that has just sent the getdata for it; a
\* second inv of blocks discards nothing that is still waiting.
C37_NoHashLost ==
    [][\A n \in Nodes :
          \A h \in queued(inner[n].blocks_in_transit) \ queued(inner'[n].blocks_in_transit) :
              /\ h = Head(inner[n].blocks_in_transit)
              /\ \E t \in Running("block") :
                    /\ t.node = n /\ t.pc = "replace"
                    /\ handle_block_step(t)
                    /\ t.sent # <<>>
                    /\ t.sent[Len(t.sent)] = GetDataMsg(t.msg.addr_from, n, "block", h)]_vars

(***************************************************************************)
(* The miner loop of handle_tx, checked under SpecNode.                    *)
(***************************************************************************)
\* The blocks node n mined itself: those of its store that no peer built.
mined_by(n) ==
    {b \in {inner[n].bc.blocks[h] : h \in DOMAIN inner[n].bc.blocks} :
        b.hash \notin {GenesisOf("A").hash, B1.hash, B2.hash, Forged.hash}}

\* The mempool transactions of a mined block: every transaction but the
\* coinbase pushed last, as the block stores them, the id cleared.
mempool_txs(b) ==
    {hash_cleared(b.transactions[i]) : i \in 1..(Len(b.transactions) - 1)}

\* C35: whatever tx messages a mining node handles, also when some of its
\* mempool transactions fail verify_tx and the loop returns early, no
\* mempool transaction is in two of the blocks the node mined.
C35_MinedOnce ==
    \A n \in Nodes :
        \A b1, b2 \in mined_by(n) :
            b1.hash # b2.hash => mempool_txs(b1) \cap mempool_txs(b2) = {}

\* C36: with several tx handlers at work on a mining node, a transaction
\* leaves the mempool only when a block mined by this node holds it; the
\* clear_mempool of one handler discards nothing another handler inserted.
C36_NoTxLost ==
    [][\A n \in Nodes :
          \A id \in DOMAIN inner[n].mempool \ DOMAIN inner'[n].mempool :
              \E b \in mined_by(n)' :
                  hash_cleared(inner[n].mempool[id]) \in mempool_txs(b)]_vars

(***************************************************************************)
(* One tx message for the mining node N2, whose mempool may still hold a   *)
(* transaction an earlier handle_tx left there, and what follows from it:  *)
(* the inv of the mined block to N1, N1's getdata, the block.              *)
(***************************************************************************)
InitMiner ==
    /\ opened = FALSE
    /\ blocks = EmptyMap
    /\ LAST = Empty
    /\ current_hash = Empty
    /\ utxos = EmptyMap
    /\ known_txs = {}
    /\ peer_blocks = {}
    /\ tx_arg = NoTx
    /\ prev_txs_arg = EmptyMap
    /\ txs_arg = <<>>
    /\ spend_arg = NoSpend
    /\ spendable = NoAcc
    /\ ret = Ret("init", "ok", NoTx)
    /\ \E left \in {S \in SUBSET TxPool : Cardinality(S) <= 1}, tx \in TxPool :
          /\ inner = [n \in Nodes |->
                        IF n = N1
                        THEN Started(chain_with(GenesisOf("A"), <<B1>>))
                        ELSE [Started(chain_with(GenesisOf("A"), <<B1, B2>>)) EXCEPT
                                 !.mempool = MapById(left)]]
          /\ network = BagAdd(EmptyMap, TxMsg(N2, CLI, tx))
    /\ threads = EmptyMap
    /\ done = NoDone
    /\ SeedRelays

NextMiner ==
    \/ \E m \in DOMAIN network : handle_connection(m)
    \/ \E t \in Running("tx"), timestamp \in Timestamps : handle_tx(t, timestamp)
    \/ \E t \in Running("inv") : handle_inv(t)
    \/ \E t \in Running("getdata") : handle_get_data(t)
    \/ \E t \in Running("block") : handle_block_step(t)

SpecMiner == InitMiner /\ [][NextMiner]_vars

\* A worker of handle_tx is there to take a step: each of its steps is one
\* call that returns (a lock taken and released, a connect, the search for
\* a nonce taken as ending), so this is ENABLED <<tx_step>>_vars.
tx_pending == Running("tx") # {}
tx_step == \E t \in Running("tx"), timestamp \in Timestamps : handle_tx(t, timestamp)

\* Threads are scheduled: a connection that can be accepted is accepted,
\* and a worker that can take a step takes it (for the workers of
\* handle_tx, weak fairness with its ENABLED written as tx_pending).
FairMiner ==
    /\ SpecMiner
    /\ WF_vars(\E m \in DOMAIN network : handle_connection(m))
    /\ WF_vars(\E t \in Running("inv") : handle_inv(t))
    /\ WF_vars(\E t \in Running("getdata") : handle_get_data(t))
    /\ WF_vars(\E t \in Running("block") : handle_block_step(t))
    /\ ([]<>(~tx_pending) \/ []<><<tx_step>>_vars)

\* The workers that are handling a tx message.
tx_workers == {t \in DOMAIN threads : t.msg.cmd = "tx"}

\* C40: a handle_tx on a mining node comes to an end; it calls mine_block
\* at most once, so it goes round the miner loop at most twice, whatever
\* its copy of the mempool holds.
C40_MinerLoopEnds ==
    /\ [](\A t \in tx_workers : t.pc = "mine" => t.new_block = NoBlock)
    /\ <>[](tx_workers = {})

\* A worker in its second round of the loop: it has mined a block and is
\* trying the transactions left in its copy of the mempool.
C40_Witness ==
    \E t \in tx_workers :
        /\ t.pc = "verify"
        /\ t.new_block # NoBlock
        /\ t.pending # {}

(***************************************************************************)
(* The Mutex of the shared state.  Every accessor of server.rs (lines      *)
(* 137-221) is one lock().unwrap(), one read or write, and the release at   *)
(* its return, and none calls another; send_data calls remove_node after    *)
(* the connect has failed, with no guard alive.  A worker's step is one     *)
(* such call, so it can always be taken.  Two connections to the seed, one  *)
(* from a peer that is gone, with and without a miner on the other node.    *)
(***************************************************************************)
InitLock ==
    /\ opened = FALSE
    /\ blocks = EmptyMap
    /\ LAST = Empty
    /\ current_hash = Empty
    /\ utxos = EmptyMap
    /\ known_txs = {}
    /\ peer_blocks = {}
    /\ tx_arg = NoTx
    /\ prev_txs_arg = EmptyMap
    /\ txs_arg = <<>>
    /\ spend_arg = NoSpend
    /\ spendable = NoAcc
    /\ ret = Ret("init", "ok", NoTx)
    /\ miners \in {m \in MinerAddrs : m[N1] = Empty}
    /\ inner = [n \in Nodes |->
                  IF n = N1
                  THEN [Started(chain_with(GenesisOf("A"), <<B1>>)) EXCEPT
                           !.known_nodes = {N1, N2, Unreachable}]
                  ELSE Started(chain_with(GenesisOf("A"), <<B1>>))]
    /\ \E h \in {0, 2} :
          network = BagOf(<<TxMsg(N1, CLI, SpendOf(get_address("B"))),
                            VersionMsg(N1, Unreachable, h)>>)
    /\ threads = EmptyMap
    /\ done = NoDone

NextLock ==
    \/ \E m \in DOMAIN network : handle_connection(m)
    \/ \E t \in Running("version") : handle_version(t)
    \/ \E t \in Running("inv") : handle_inv(t)
    \/ \E t \in Running("getdata") : handle_get_data(t)
    \/ \E t \in Running("block") : handle_block_step(t)
    \/ \E t \in Running("tx"), timestamp \in Timestamps : handle_tx(t, timestamp)
    \/ \E t \in Refused : remove_node(t)

SpecLock == InitLock /\ [][NextLock]_vars

\* Threads are scheduled: a worker whose next call can return is given the
\* processor to make it.
FairLock ==
    /\ SpecLock
    /\ WF_vars(\E m \in DOMAIN network : handle_connection(m))
    /\ WF_vars(\E t \in Running("version") : handle_version(t))
    /\ WF_vars(\E t \in Running("inv") : handle_inv(t))
    /\ WF_vars(\E t \in Running("getdata") : handle_get_data(t))
    /\ WF_vars(\E t \in Running("block") : handle_block_step(t))
    /\ WF_vars(\E t \in Refused : remove_node(t))
    /\ ([]<>(~tx_pending) \/ []<><<tx_step>>_vars)

\* A worker has panicked with the Mutex in its hands.
holder_panicked == \E n \in Nodes : inner[n].poisoned

\* C39: no worker waits for the Mutex for ever.  While no holder of the
\* Mutex has panicked, a worker that send_data has left in front of
\* remove_node gets the lock (again and again no worker is waiting there),
\* and every worker gets each lock it asks for and comes to its end.
C39_LockGranted ==
    [](~holder_panicked) => ([]<>(Refused = {}) /\ <>[](DOMAIN threads = {}))

\* remove_node has been granted the Mutex of a node on which a second
\* worker is running.
C39_Witness ==
    /\ ~holder_panicked
    /\ \E t \in DOMAIN threads, u \in DOMAIN threads :
          /\ t # u
          /\ t.node = u.node
          /\ t.failed = {Unreachable}
          /\ t.refused = NoAddr

====
